---- MODULE Spec2Model ----
(***************************************************************************)
(* dmc-todo: the outline tree (todo_config.rs), the index-path cursor      *)
(* (navigation.rs) and the key handlers of the event loop (main.rs).       *)
(*                                                                         *)
(* Conventions.  Rust vectors are TLA+ sequences; every index kept in the  *)
(* model (the cursor's indexes, positions in results) is 0-based as in the *)
(* source, and element i of a vector v is v[i + 1].  Option<T> is a        *)
(* sequence of length at most one: <<>> is None, <<x>> is Some(x).         *)
(* A Result is a record whose field res is "Ok", one of the MoveError      *)
(* kinds, or "Panic" when the code aborts (vector indexing out of range).  *)
(***************************************************************************)
EXTENDS Integers, Sequences, FiniteSets, TLC

\* Bounds of the model: the nodes (groups plus todos) the configuration holds,
\* archived ones included, and the days the clock runs.
MaxNodes == 4
MaxTime == 1

\* Bounds of the scrolling model: the todos of its one group, and the
\* terminal heights asked about (crossterm's fallback is 10 rows).
MaxScrollTodos == 6
MaxHeight == 10

\* archive_time as the configuration file of this model sets it, in days
\* (the default configuration has one day).
ArchiveTime == 0

\* What the interactive prompt may return as a name.
TodoNames == {"T1"}
GroupNames == {"A"}

VARIABLES
    config,        \* TodoConfig: [groups, archive_groups, archive_time]
    indexes,       \* PositionHierarchy.indexes of the cursor
    now,           \* the local clock, in days
    ended          \* how main left its loop: "" while the loop runs

vars == <<config, indexes, now, ended>>

(***************************************************************************)
(* Tree model (todo_config.rs)                                             *)
(***************************************************************************)

\* Vec::get
Get(v, i) == IF i >= 0 /\ i < Len(v) THEN <<v[i + 1]>> ELSE <<>>

\* Vec::remove
Remove(v, i) == SubSeq(v, 1, i) \o SubSeq(v, i + 2, Len(v))

\* due and created are set here and read only by the terminal rendering.
NewTodo(name) == [name |-> name, done_time |-> <<>>]

NewGroup(name, open) ==
    [hidden |-> FALSE, name |-> name, open |-> open,
     todos |-> <<>>, completed |-> <<>>, todo_archive |-> <<>>,
     subgroups |-> <<>>, subgroup_archive |-> <<>>]

is_empty(g) == g.subgroups = <<>> /\ g.todos = <<>> /\ g.completed = <<>>

len(g) == Len(g.subgroups) + Len(g.todos) + Len(g.completed)

\* A visitor that records every call it receives, in the value it threads:
\* "probe" always descends, "probe_open" descends into open groups only.
ProbeVisitors == {"probe", "probe_open"}

Call(kind, name, d) == [call |-> kind, name |-> name, depth |-> d]

\* The visitors handed to traverse are fn pointers; a visitor is named by the
\* function that supplies its three closures, and the three operators below
\* apply the closure of that visitor.  pre_handle yields <<use_inner, value>>.
RECURSIVE traverse(_, _, _, _)

\* A digit is the number itself; '+' stands for ten or more.
num_to_str(num) == IF num < 10 THEN num ELSE "+"

\* pre_handle whose todo_count closure descends into open groups only.
pre_handle_count_open_only(visitor, g, d, v) ==
    CASE visitor = "todo_count" -> <<g.open, v>>
      [] visitor = "format_hierarchy" ->
            <<g.open,
              Append(v, [indent |-> d,
                         mark |-> IF g.open THEN "*"
                                  ELSE num_to_str(traverse(g, 0, "todo_count", 0)),
                         name |-> g.name])>>
      [] visitor = "probe" -> <<TRUE, Append(v, Call("pre", g.name, d))>>
      [] visitor = "probe_open" -> <<g.open, Append(v, Call("pre", g.name, d))>>

pre_handle(visitor, g, d, v) ==
    CASE visitor = "todo_count" -> <<TRUE, v>>
      [] visitor = "format_hierarchy" ->
            <<g.open,
              Append(v, [indent |-> d,
                         mark |-> IF g.open THEN "*"
                                  ELSE num_to_str(traverse(g, 0, "todo_count", 0)),
                         name |-> g.name])>>
      [] visitor = "probe" -> <<TRUE, Append(v, Call("pre", g.name, d))>>
      [] visitor = "probe_open" -> <<g.open, Append(v, Call("pre", g.name, d))>>

todo_handle(visitor, t, d, v) ==
    CASE visitor = "todo_count" -> IF t.done_time = <<>> THEN v + 1 ELSE v
      [] visitor = "format_hierarchy" ->
            Append(v, [indent |-> d,
                       mark |-> IF t.done_time # <<>> THEN "*" ELSE " ",
                       name |-> t.name])
      [] visitor \in ProbeVisitors -> Append(v, Call("todo", t.name, d))

after_handle(visitor, g, d, v) ==
    CASE visitor = "todo_count" -> v
      [] visitor = "format_hierarchy" -> v
      [] visitor \in ProbeVisitors -> Append(v, Call("post", g.name, d))

\* traverse visiting completed before todos.
RECURSIVE traverse_completed_first(_, _, _, _)
traverse_completed_first(self, value, visitor, depth) ==
    LET p == pre_handle(visitor, self, depth, value)
        RECURSIVE over_subgroups(_, _)
        over_subgroups(gs, v) ==
            IF gs = <<>> THEN v
            ELSE over_subgroups(Tail(gs),
                     traverse_completed_first(Head(gs), v, visitor, depth + 1))
        RECURSIVE over_todos(_, _)
        over_todos(ts, v) ==
            IF ts = <<>> THEN v
            ELSE over_todos(Tail(ts), todo_handle(visitor, Head(ts), depth + 1, v))
    IN  after_handle(visitor, self, depth,
            IF p[1]
            THEN over_todos(self.todos,
                     over_todos(self.completed, over_subgroups(self.subgroups, p[2])))
            ELSE p[2])

\* traverse returning at once, without after_handle, when pre_handle says
\* not to descend.
RECURSIVE traverse_return_when_closed(_, _, _, _)
traverse_return_when_closed(self, value, visitor, depth) ==
    LET p == pre_handle(visitor, self, depth, value)
        RECURSIVE over_subgroups(_, _)
        over_subgroups(gs, v) ==
            IF gs = <<>> THEN v
            ELSE over_subgroups(Tail(gs),
                     traverse_return_when_closed(Head(gs), v, visitor, depth + 1))
        RECURSIVE over_todos(_, _)
        over_todos(ts, v) ==
            IF ts = <<>> THEN v
            ELSE over_todos(Tail(ts), todo_handle(visitor, Head(ts), depth + 1, v))
    IN  IF p[1]
        THEN after_handle(visitor, self, depth,
                 over_todos(self.completed,
                     over_todos(self.todos, over_subgroups(self.subgroups, p[2]))))
        ELSE p[2]

\* Group::traverse
traverse(self, value, visitor, depth) ==
    LET p == pre_handle(visitor, self, depth, value)
        RECURSIVE over_subgroups(_, _)
        over_subgroups(gs, v) ==
            IF gs = <<>> THEN v
            ELSE over_subgroups(Tail(gs), traverse(Head(gs), v, visitor, depth + 1))
        RECURSIVE over_todos(_, _)
        over_todos(ts, v) ==
            IF ts = <<>> THEN v
            ELSE over_todos(Tail(ts), todo_handle(visitor, Head(ts), depth + 1, v))
    IN  after_handle(visitor, self, depth,
            IF p[1]
            THEN over_todos(self.completed,
                     over_todos(self.todos, over_subgroups(self.subgroups, p[2])))
            ELSE p[2])

todo_count(self) == traverse(self, 0, "todo_count", 0)

\* The output string is the sequence of its lines; a line
\* "{indent}[{mark}] {name}\r\n" is the record of its three parts (indent in
\* units of two spaces).
format_hierarchy(context) ==
    LET RECURSIVE over_groups(_, _)
        over_groups(gs, out) ==
            IF gs = <<>> THEN out
            ELSE over_groups(Tail(gs), traverse(Head(gs), out, "format_hierarchy", 1))
    IN  over_groups(context.groups, <<>>)

\* sweep_completed archiving from now - done_time = archive_time on.
RECURSIVE sweep_completed_from_archive_time(_, _, _)
sweep_completed_from_archive_time(g, i, v) ==
    IF i < 0 THEN <<TRUE, v, g>>
    ELSE LET t == g.completed[i + 1]
         IN  IF t.done_time = <<>> THEN sweep_completed_from_archive_time(g, i - 1, v)
             ELSE LET now_r == Head(v.env)
                      rest == [v EXCEPT !.env = Tail(v.env)]
                  IN  IF now_r # <<>> /\ now_r[1] - t.done_time[1] >= v.archive_time
                      THEN sweep_completed_from_archive_time(
                               [g EXCEPT !.todo_archive = Append(@, t),
                                         !.completed = Remove(@, i)],
                               i - 1, rest)
                      ELSE sweep_completed_from_archive_time(g, i - 1, rest)

\* sweep_completed walking completed from the front: after a removal the
\* next todo slides into the index just visited and is passed over.
sweep_completed_forward(g, i, v) ==
    LET RECURSIVE walk(_, _, _)
        walk(h, k, w) ==
            IF k > i THEN <<TRUE, w, h>>
            ELSE IF k >= Len(h.completed) THEN walk(h, k + 1, w)
            ELSE LET t == h.completed[k + 1]
                 IN  IF t.done_time = <<>> THEN walk(h, k + 1, w)
                     ELSE LET now_r == Head(w.env)
                              rest == [w EXCEPT !.env = Tail(w.env)]
                          IN  IF now_r # <<>> /\ now_r[1] - t.done_time[1] > w.archive_time
                              THEN walk([h EXCEPT !.todo_archive = Append(@, t),
                                                  !.completed = Remove(@, k)],
                                        k + 1, rest)
                              ELSE walk(h, k + 1, rest)
    IN  walk(g, 0, v)

\* sweep_completed taking a failed now_local() for a time past every deadline.
RECURSIVE sweep_completed_unavailable_is_late(_, _, _)
sweep_completed_unavailable_is_late(g, i, v) ==
    IF i < 0 THEN <<TRUE, v, g>>
    ELSE LET t == g.completed[i + 1]
         IN  IF t.done_time = <<>> THEN sweep_completed_unavailable_is_late(g, i - 1, v)
             ELSE LET now_r == Head(v.env)
                      rest == [v EXCEPT !.env = Tail(v.env)]
                  IN  IF now_r = <<>> \/ now_r[1] - t.done_time[1] > v.archive_time
                      THEN sweep_completed_unavailable_is_late(
                               [g EXCEPT !.todo_archive = Append(@, t),
                                         !.completed = Remove(@, i)],
                               i - 1, rest)
                      ELSE sweep_completed_unavailable_is_late(g, i - 1, rest)

\* The visitors handed to traverse_mut (main.rs).  pre_handle_mut yields
\* <<use_inner, value, the group as the closure left it>>.
\* The value of the archive sweep is archive_time together with what the
\* calls of OffsetDateTime::now_local() still to come will return (env).
RECURSIVE sweep_completed(_, _, _)
\* for i in (0..g.completed.len()).rev() { .. }, from index i downwards
sweep_completed(g, i, v) ==
    IF i < 0 THEN <<TRUE, v, g>>
    ELSE LET t == g.completed[i + 1]
         IN  IF t.done_time = <<>> THEN sweep_completed(g, i - 1, v)
             ELSE LET now_r == Head(v.env)
                      rest == [v EXCEPT !.env = Tail(v.env)]
                  IN  IF now_r # <<>> /\ now_r[1] - t.done_time[1] > v.archive_time
                      THEN sweep_completed(
                               [g EXCEPT !.todo_archive = Append(@, t),
                                         !.completed = Remove(@, i)],
                               i - 1, rest)
                      ELSE sweep_completed(g, i - 1, rest)

\* pre_handle_mut whose clean closure puts the archived todos back into todos.
pre_handle_mut_clean_unarchives(visitor, g, d, v) ==
    CASE visitor = "archive_sweep" -> sweep_completed(g, Len(g.completed) - 1, v)
      [] visitor = "clean" ->
            <<TRUE, v, [g EXCEPT !.todos = @ \o g.todo_archive,
                                 !.todo_archive = <<>>, !.subgroup_archive = <<>>]>>
      [] visitor = "probe" -> <<TRUE, Append(v, Call("pre", g.name, d)), g>>
      [] visitor = "probe_open" -> <<g.open, Append(v, Call("pre", g.name, d)), g>>

pre_handle_mut(visitor, g, d, v) ==
    CASE visitor = "archive_sweep" -> sweep_completed(g, Len(g.completed) - 1, v)
      [] visitor = "clean" ->
            <<TRUE, v, [g EXCEPT !.todo_archive = <<>>, !.subgroup_archive = <<>>]>>
      [] visitor = "probe" -> <<TRUE, Append(v, Call("pre", g.name, d)), g>>
      [] visitor = "probe_open" -> <<g.open, Append(v, Call("pre", g.name, d)), g>>

\* yields <<value, the todo as the closure left it>>
todo_handle_mut(visitor, t, d, v) ==
    CASE visitor \in {"archive_sweep", "clean"} -> <<v, t>>
      [] visitor \in ProbeVisitors -> <<Append(v, Call("todo", t.name, d)), t>>

\* yields <<value, the group as the closure left it>>
after_handle_mut(visitor, g, d, v) ==
    CASE visitor \in {"archive_sweep", "clean"} -> <<v, g>>
      [] visitor \in ProbeVisitors -> <<Append(v, Call("post", g.name, d)), g>>

\* Group::traverse_mut; yields <<value, self as the traversal left it>>.
RECURSIVE traverse_mut(_, _, _, _)
traverse_mut(self, value, visitor, depth) ==
    LET p == pre_handle_mut(visitor, self, depth, value)
        \* each loop yields <<value, the vector as the loop left it>>
        RECURSIVE over_subgroups(_, _, _)
        over_subgroups(gs, k, v) ==
            IF k > Len(gs) THEN <<v, gs>>
            ELSE LET r == traverse_mut(gs[k], v, visitor, depth + 1)
                 IN  over_subgroups([gs EXCEPT ![k] = r[2]], k + 1, r[1])
        RECURSIVE over_todos(_, _, _)
        over_todos(ts, k, v) ==
            IF k > Len(ts) THEN <<v, ts>>
            ELSE LET r == todo_handle_mut(visitor, ts[k], depth + 1, v)
                 IN  over_todos([ts EXCEPT ![k] = r[2]], k + 1, r[1])
        s == over_subgroups(p[3].subgroups, 1, p[2])
        t == over_todos(p[3].todos, 1, s[1])
        c == over_todos(p[3].completed, 1, t[1])
    IN  IF p[1]
        THEN after_handle_mut(visitor,
                 [p[3] EXCEPT !.subgroups = s[2], !.todos = t[2], !.completed = c[2]],
                 depth, c[1])
        ELSE after_handle_mut(visitor, p[3], depth, p[2])

(***************************************************************************)
(* Cursor (navigation.rs)                                                  *)
(***************************************************************************)

Err(kind) == [res |-> kind]

OkItem(kind, item, depth, container, pos) ==
    [res |-> "Ok", kind |-> kind, item |-> item, depth |-> depth,
     container |-> container, pos |-> pos]

\* find_item with the final index read in the order subgroups, completed, todos.
find_item_completed_first(ix, context) ==
    IF Len(ix) = 0 THEN Err("Panic")   \* self.indexes[0] on an empty vector
    ELSE
    LET RECURSIVE walk(_, _)
        walk(group, i) ==
            IF i >= Len(ix) - 1 THEN <<group>>
            ELSE LET n == Get(group.subgroups, ix[i + 1])
                 IN  IF n = <<>> THEN <<>> ELSE walk(n[1], i + 1)
        first == Get(context.groups, ix[1])
        depth == Len(ix) - 1
        last  == ix[Len(ix)]
    IN  IF first = <<>> THEN Err("GroupNotFound")
        ELSE IF Len(ix) = 1 THEN OkItem("Group", first[1], depth, "groups", ix[1])
        ELSE LET w == walk(first[1], 1)
             IN  IF w = <<>> THEN Err("GroupNotFound")
                 ELSE LET group == w[1]
                          ns == Len(group.subgroups)
                          nt == Len(group.todos)
                          nc == Len(group.completed)
                      IN  IF last < ns
                          THEN OkItem("Group", group.subgroups[last + 1], depth,
                                      "subgroups", last)
                          ELSE IF last < ns + nc
                          THEN OkItem("Todo", group.completed[last - ns + 1], depth,
                                      "completed", last - ns)
                          ELSE IF last < ns + nc + nt
                          THEN OkItem("Todo", group.todos[last - ns - nc + 1], depth,
                                      "todos", last - ns - nc)
                          ELSE Err("OutOfBounds")

\* find_item reporting a final index past the end as GroupNotFound.
find_item_one_error_kind(ix, context) ==
    IF Len(ix) = 0 THEN Err("Panic")   \* self.indexes[0] on an empty vector
    ELSE
    LET RECURSIVE walk(_, _)
        walk(group, i) ==
            IF i >= Len(ix) - 1 THEN <<group>>
            ELSE LET n == Get(group.subgroups, ix[i + 1])
                 IN  IF n = <<>> THEN <<>> ELSE walk(n[1], i + 1)
        first == Get(context.groups, ix[1])
        depth == Len(ix) - 1
        last  == ix[Len(ix)]
    IN  IF first = <<>> THEN Err("GroupNotFound")
        ELSE IF Len(ix) = 1 THEN OkItem("Group", first[1], depth, "groups", ix[1])
        ELSE LET w == walk(first[1], 1)
             IN  IF w = <<>> THEN Err("GroupNotFound")
                 ELSE LET group == w[1]
                          ns == Len(group.subgroups)
                          nt == Len(group.todos)
                          nc == Len(group.completed)
                      IN  IF last < ns
                          THEN OkItem("Group", group.subgroups[last + 1], depth,
                                      "subgroups", last)
                          ELSE IF last < ns + nt
                          THEN OkItem("Todo", group.todos[last - ns + 1], depth,
                                      "todos", last - ns)
                          ELSE IF last < ns + nt + nc
                          THEN OkItem("Todo", group.completed[last - ns - nt + 1], depth,
                                      "completed", last - ns - nt)
                          ELSE Err("GroupNotFound")

\* The reference returned is modelled by the item's value together with the
\* place it was taken from: the vector (container) and the position in it.
find_item(ix, context) ==
    IF Len(ix) = 0 THEN Err("Panic")   \* self.indexes[0] on an empty vector
    ELSE
    LET RECURSIVE walk(_, _)
        walk(group, i) ==
            IF i >= Len(ix) - 1 THEN <<group>>
            ELSE LET n == Get(group.subgroups, ix[i + 1])
                 IN  IF n = <<>> THEN <<>> ELSE walk(n[1], i + 1)
        first == Get(context.groups, ix[1])
        depth == Len(ix) - 1
        last  == ix[Len(ix)]
    IN  IF first = <<>> THEN Err("GroupNotFound")
        ELSE IF Len(ix) = 1 THEN OkItem("Group", first[1], depth, "groups", ix[1])
        ELSE LET w == walk(first[1], 1)
             IN  IF w = <<>> THEN Err("GroupNotFound")
                 ELSE LET group == w[1]
                          ns == Len(group.subgroups)
                          nt == Len(group.todos)
                          nc == Len(group.completed)
                      IN  IF last < ns
                          THEN OkItem("Group", group.subgroups[last + 1], depth,
                                      "subgroups", last)
                          ELSE IF last < ns + nt
                          THEN OkItem("Todo", group.todos[last - ns + 1], depth,
                                      "todos", last - ns)
                          ELSE IF last < ns + nt + nc
                          THEN OkItem("Todo", group.completed[last - ns - nt + 1], depth,
                                      "completed", last - ns - nt)
                          ELSE Err("OutOfBounds")

\* find_item_mut reporting the length of the path as the depth.
find_item_mut_depth_is_len(ix, context) ==
    IF Len(ix) = 0 THEN Err("Panic")   \* self.indexes[0] on an empty vector
    ELSE
    LET RECURSIVE walk_mut(_, _)
        walk_mut(group, i) ==
            IF i >= Len(ix) - 1 THEN <<group>>
            ELSE LET n == Get(group.subgroups, ix[i + 1])
                 IN  IF n = <<>> THEN <<>> ELSE walk_mut(n[1], i + 1)
        first == Get(context.groups, ix[1])
        depth == Len(ix)
        last  == ix[Len(ix)]
    IN  IF first = <<>> THEN Err("GroupNotFound")
        ELSE IF Len(ix) = 1 THEN OkItem("Group", first[1], depth, "groups", ix[1])
        ELSE LET w == walk_mut(first[1], 1)
             IN  IF w = <<>> THEN Err("GroupNotFound")
                 ELSE LET group == w[1]
                          ns == Len(group.subgroups)
                          nt == Len(group.todos)
                          nc == Len(group.completed)
                      IN  IF last < ns
                          THEN OkItem("Group", group.subgroups[last + 1], depth,
                                      "subgroups", last)
                          ELSE IF last < ns + nt
                          THEN OkItem("Todo", group.todos[last - ns + 1], depth,
                                      "todos", last - ns)
                          ELSE IF last < ns + nt + nc
                          THEN OkItem("Todo", group.completed[last - ns - nt + 1], depth,
                                      "completed", last - ns - nt)
                          ELSE Err("OutOfBounds")

find_item_mut(ix, context) ==
    IF Len(ix) = 0 THEN Err("Panic")   \* self.indexes[0] on an empty vector
    ELSE
    LET RECURSIVE walk_mut(_, _)
        walk_mut(group, i) ==
            IF i >= Len(ix) - 1 THEN <<group>>
            ELSE LET n == Get(group.subgroups, ix[i + 1])
                 IN  IF n = <<>> THEN <<>> ELSE walk_mut(n[1], i + 1)
        first == Get(context.groups, ix[1])
        depth == Len(ix) - 1
        last  == ix[Len(ix)]
    IN  IF first = <<>> THEN Err("GroupNotFound")
        ELSE IF Len(ix) = 1 THEN OkItem("Group", first[1], depth, "groups", ix[1])
        ELSE LET w == walk_mut(first[1], 1)
             IN  IF w = <<>> THEN Err("GroupNotFound")
                 ELSE LET group == w[1]
                          ns == Len(group.subgroups)
                          nt == Len(group.todos)
                          nc == Len(group.completed)
                      IN  IF last < ns
                          THEN OkItem("Group", group.subgroups[last + 1], depth,
                                      "subgroups", last)
                          ELSE IF last < ns + nt
                          THEN OkItem("Todo", group.todos[last - ns + 1], depth,
                                      "todos", last - ns)
                          ELSE IF last < ns + nt + nc
                          THEN OkItem("Todo", group.completed[last - ns - nt + 1], depth,
                                      "completed", last - ns - nt)
                          ELSE Err("OutOfBounds")

\* Writing through the &mut Group that find_item_mut / find_group_mut hand
\* out: the vector gs with the group reached by route gpath replaced by g.
RECURSIVE put_group(_, _, _)
put_group(gs, gpath, g) ==
    IF Len(gpath) = 1 THEN [gs EXCEPT ![gpath[1] + 1] = g]
    ELSE LET child == gs[gpath[1] + 1]
         IN  [gs EXCEPT ![gpath[1] + 1] =
                 [child EXCEPT !.subgroups = put_group(child.subgroups, Tail(gpath), g)]]

\* Finds the group ignoring the final index.  gpath is the route taken: the
\* indices that were followed (through groups, then subgroups) to reach it.
find_group(ix, context) ==
    IF Len(ix) = 0 THEN Err("Panic")   \* self.indexes[0] on an empty vector
    ELSE
    LET RECURSIVE walk(_, _)
        walk(group, i) ==
            IF i >= Len(ix) - 1 THEN <<group>>
            ELSE LET n == Get(group.subgroups, ix[i + 1])
                 IN  IF n = <<>> THEN <<>> ELSE walk(n[1], i + 1)
        first == Get(context.groups, ix[1])
    IN  IF first = <<>> THEN Err("GroupNotFound")
        ELSE IF Len(ix) = 1
        THEN [res |-> "Ok", group |-> first[1], gpath |-> ix]
        ELSE LET w == walk(first[1], 1)
             IN  IF w = <<>> THEN Err("GroupNotFound")
                 ELSE [res |-> "Ok", group |-> w[1],
                       gpath |-> SubSeq(ix, 1, Len(ix) - 1)]

find_group_mut(ix, context) ==
    IF Len(ix) = 0 THEN Err("Panic")   \* self.indexes[0] on an empty vector
    ELSE
    LET RECURSIVE walk_mut(_, _)
        walk_mut(group, i) ==
            IF i >= Len(ix) - 1 THEN <<group>>
            ELSE LET n == Get(group.subgroups, ix[i + 1])
                 IN  IF n = <<>> THEN <<>> ELSE walk_mut(n[1], i + 1)
        first == Get(context.groups, ix[1])
    IN  IF first = <<>> THEN Err("GroupNotFound")
        ELSE IF Len(ix) = 1
        THEN [res |-> "Ok", group |-> first[1], gpath |-> ix]
        ELSE LET w == walk_mut(first[1], 1)
             IN  IF w = <<>> THEN Err("GroupNotFound")
                 ELSE [res |-> "Ok", group |-> w[1],
                       gpath |-> SubSeq(ix, 1, Len(ix) - 1)]

\* group_size counting the children of a closed group as well.
RECURSIVE group_size_ignoring_open(_)
group_size_ignoring_open(group) ==
    LET RECURSIVE sum(_)
        sum(gs) == IF gs = <<>> THEN 0 ELSE group_size_ignoring_open(Head(gs)) + sum(Tail(gs))
    IN  1 + sum(group.subgroups) + Len(group.todos) + Len(group.completed)

RECURSIVE group_size(_)
group_size(group) ==
    LET RECURSIVE sum(_)
        sum(gs) == IF gs = <<>> THEN 0 ELSE group_size(Head(gs)) + sum(Tail(gs))
    IN  IF ~group.open THEN 1
        ELSE 1 + sum(group.subgroups) + Len(group.todos) + Len(group.completed)

\* A cursor operation yields the Result it returns and the indexes it leaves
\* behind (the handlers drop the Result with .ok(); the indexes stay).
Ret(res, ix) == [res |-> res, indexes |-> ix]

\* *last_mut() = v
SetLast(ix, v) == [ix EXCEPT ![Len(ix)] = v]

group_up(ix, context) ==
    IF Len(ix) = 0 THEN Ret("NoIndex", ix)
    ELSE IF ix[Len(ix)] > 0 THEN Ret("Ok", SetLast(ix, ix[Len(ix)] - 1))
    ELSE Ret("Ok", ix)

\* group_down stepping past the last sibling.
group_down_unclamped(ix, context) ==
    IF Len(ix) = 1
    THEN IF Len(context.groups) = 0 THEN Ret("Panic", ix)
         ELSE Ret("Ok", SetLast(ix, ix[Len(ix)] + 1))
    ELSE LET fg == find_group(ix, context)
         IN  IF fg.res # "Ok" THEN Ret(fg.res, ix)
             ELSE IF len(fg.group) = 0 THEN Ret("Panic", ix)
             ELSE Ret("Ok", SetLast(ix, ix[Len(ix)] + 1))


\* usize subtraction below zero, possible at groups.len() - 1 and at
\* group_count - 1, aborts when overflow checks are on (it wraps when they
\* are off); it needs an empty forest or an empty parent group.
group_down(ix, context) ==
    IF Len(ix) = 1
    THEN IF Len(context.groups) = 0 THEN Ret("Panic", ix)
         ELSE IF ix[Len(ix)] < Len(context.groups) - 1
         THEN Ret("Ok", SetLast(ix, ix[Len(ix)] + 1))
         ELSE Ret("Ok", ix)
    ELSE LET fg == find_group(ix, context)
         IN  IF fg.res # "Ok" THEN Ret(fg.res, ix)
             ELSE LET group_count == len(fg.group)
                  IN  IF group_count = 0 THEN Ret("Panic", ix)
                      ELSE IF ix[Len(ix)] < group_count - 1
                      THEN Ret("Ok", SetLast(ix, ix[Len(ix)] + 1))
                      ELSE Ret("Ok", ix)

\* hierarchy_up popping the only index as well.
hierarchy_up_pops_root(ix, context) ==
    Ret("Ok", SubSeq(ix, 1, Len(ix) - 1))

\* hierarchy_up that never pops.
hierarchy_up_never_pops(ix, context) ==
    Ret("Ok", ix)


hierarchy_up(ix, context) ==
    IF Len(ix) > 1 THEN Ret("Ok", SubSeq(ix, 1, Len(ix) - 1)) ELSE Ret("Ok", ix)

hierarchy_down_no_open(ix, context) ==
    LET item == find_item(ix, context)
    IN  IF item.res # "Ok" THEN Ret(item.res, ix)
        ELSE IF item.kind = "Group" /\ ~is_empty(item.item)
        THEN Ret("Ok", Append(ix, 0))
        ELSE Ret("Ok", ix)

\* hierarchy_down entering a group without opening it.
hierarchy_down_leaves_closed(ix, context) ==
    LET r == hierarchy_down_no_open(ix, context)
    IN  [res |-> r.res, indexes |-> r.indexes, config |-> context]


\* Takes &mut TodoConfig: yields the configuration it leaves as well.
hierarchy_down(ix, context) ==
    LET item == find_item_mut(ix, context)
    IN  IF item.res # "Ok" THEN [res |-> item.res, indexes |-> ix, config |-> context]
        ELSE IF item.kind = "Group" /\ ~is_empty(item.item)
        THEN [res |-> "Ok", indexes |-> Append(ix, 0),
              config |-> [context EXCEPT !.groups =
                             put_group(@, ix, [item.item EXCEPT !.open = TRUE])]]
        ELSE [res |-> "Ok", indexes |-> ix, config |-> context]

\* cursor_up staying where it is at the first sibling.
cursor_up_stays_at_first(ix, context) ==
    IF Len(ix) = 0 THEN Ret("NoIndex", ix)
    ELSE IF ix[Len(ix)] > 0
    THEN LET a == group_up(ix, context)
         IN  IF a.res # "Ok" THEN a
             ELSE LET item == find_item(a.indexes, context)
                  IN  IF item.res # "Ok" THEN Ret(item.res, a.indexes)
                      ELSE IF item.kind = "Group" /\ item.item.open /\ ~is_empty(item.item)
                      THEN LET b == hierarchy_down_no_open(a.indexes, context)
                           IN  IF b.res # "Ok" THEN b
                               ELSE Ret("Ok", SetLast(b.indexes, len(item.item) - 1))
                      ELSE Ret("Ok", a.indexes)
    ELSE Ret("Ok", ix)


\* moves up on the visible items
cursor_up(ix, context) ==
    IF Len(ix) = 0 THEN Ret("NoIndex", ix)
    ELSE IF ix[Len(ix)] > 0
    THEN LET a == group_up(ix, context)
         IN  IF a.res # "Ok" THEN a
             ELSE LET item == find_item(a.indexes, context)
                  IN  IF item.res # "Ok" THEN Ret(item.res, a.indexes)
                      ELSE IF item.kind = "Group" /\ item.item.open /\ ~is_empty(item.item)
                      THEN LET b == hierarchy_down_no_open(a.indexes, context)
                           IN  IF b.res # "Ok" THEN b
                               ELSE Ret("Ok", SetLast(b.indexes, len(item.item) - 1))
                      ELSE Ret("Ok", a.indexes)
    ELSE hierarchy_up(ix, context)

\* cursor_down stepping over an open group as over a closed one.
cursor_down_skips_open_group(ix, context) ==
    LET item == find_item(ix, context)
    IN  IF item.res # "Ok" THEN Ret(item.res, ix)
        ELSE
        LET a == IF Len(ix) = 1 THEN group_down(ix, context) ELSE Ret("Ok", ix)
        IN  IF a.res # "Ok" THEN a
            ELSE LET fg == find_group(a.indexes, context)
                 IN  IF fg.res # "Ok" THEN Ret(fg.res, a.indexes)
                     ELSE LET group_count == len(fg.group)
                              b == IF a.indexes[Len(a.indexes)] + 1 >= group_count
                                   THEN hierarchy_up(a.indexes, context)
                                   ELSE Ret("Ok", a.indexes)
                          IN  IF b.res # "Ok" THEN b
                              ELSE group_down(b.indexes, context)

\* cursor_down that never leaves the level it is on.
cursor_down_stays_in_level(ix, context) ==
    LET item == find_item(ix, context)
    IN  IF item.res # "Ok" THEN Ret(item.res, ix)
        ELSE IF item.kind = "Group" /\ item.item.open /\ ~is_empty(item.item)
        THEN hierarchy_down_no_open(ix, context)
        ELSE
        LET a == IF Len(ix) = 1 THEN group_down(ix, context) ELSE Ret("Ok", ix)
        IN  IF a.res # "Ok" THEN a
            ELSE LET fg == find_group(a.indexes, context)
                 IN  IF fg.res # "Ok" THEN Ret(fg.res, a.indexes)
                     ELSE group_down(a.indexes, context)

\* cursor_down entering a non-empty group whether it is open or closed.
cursor_down_enters_closed_group(ix, context) ==
    LET item == find_item(ix, context)
    IN  IF item.res # "Ok" THEN Ret(item.res, ix)
        ELSE IF item.kind = "Group" /\ ~is_empty(item.item)
        THEN hierarchy_down_no_open(ix, context)
        ELSE
        LET a == IF Len(ix) = 1 THEN group_down(ix, context) ELSE Ret("Ok", ix)
        IN  IF a.res # "Ok" THEN a
            ELSE LET fg == find_group(a.indexes, context)
                 IN  IF fg.res # "Ok" THEN Ret(fg.res, a.indexes)
                     ELSE LET group_count == len(fg.group)
                              b == IF a.indexes[Len(a.indexes)] + 1 >= group_count
                                   THEN hierarchy_up(a.indexes, context)
                                   ELSE Ret("Ok", a.indexes)
                          IN  IF b.res # "Ok" THEN b
                              ELSE group_down(b.indexes, context)


cursor_down(ix, context) ==
    LET item == find_item(ix, context)
    IN  IF item.res # "Ok" THEN Ret(item.res, ix)
        ELSE IF item.kind = "Group" /\ item.item.open /\ ~is_empty(item.item)
        THEN hierarchy_down_no_open(ix, context)
        ELSE
        \* special handling for top-level groups
        LET a == IF Len(ix) = 1 THEN group_down(ix, context) ELSE Ret("Ok", ix)
        IN  IF a.res # "Ok" THEN a
            ELSE LET fg == find_group(a.indexes, context)
                 IN  IF fg.res # "Ok" THEN Ret(fg.res, a.indexes)
                     ELSE LET group_count == len(fg.group)
                              b == IF a.indexes[Len(a.indexes)] + 1 >= group_count
                                   THEN hierarchy_up(a.indexes, context)
                                   ELSE Ret("Ok", a.indexes)
                          IN  IF b.res # "Ok" THEN b
                              ELSE group_down(b.indexes, context)

\* vert_pos leaving the rows of the subgroups out when the index is a todo's.
vert_pos_todos_from_zero(ix, context) ==
    IF Len(ix) = 0 THEN [res |-> "NoIndex"]
    ELSE
    LET RECURSIVE sum(_)
        sum(gs) == IF gs = <<>> THEN 0 ELSE group_size(Head(gs)) + sum(Tail(gs))
        \* for i in 1..self.indexes.len()
        RECURSIVE levels(_, _, _)
        levels(i, current_group, total) ==
            IF i >= Len(ix) THEN total
            ELSE IF ix[i + 1] < Len(current_group.subgroups)
            THEN levels(i + 1, current_group.subgroups[ix[i + 1] + 1],
                        total + 1 + sum(SubSeq(current_group.subgroups, 1, ix[i + 1])))
            ELSE levels(i + 1, current_group,
                        total + 1 + (ix[i + 1] - Len(current_group.subgroups)))
        first == ix[1]
    IN  \* both the loop over 0..first and groups.get(first) fail past the end
        IF first >= Len(context.groups) THEN [res |-> "GroupNotFound"]
        ELSE [res |-> "Ok",
              val |-> levels(1, context.groups[first + 1],
                             sum(SubSeq(context.groups, 1, first)))]

\* Finds the vertical position of the cursor in the context. 0 is top level group.
vert_pos(ix, context) ==
    IF Len(ix) = 0 THEN [res |-> "NoIndex"]
    ELSE
    LET RECURSIVE sum(_)
        sum(gs) == IF gs = <<>> THEN 0 ELSE group_size(Head(gs)) + sum(Tail(gs))
        \* for i in 1..self.indexes.len()
        RECURSIVE levels(_, _, _)
        levels(i, current_group, total) ==
            IF i >= Len(ix) THEN total
            ELSE IF ix[i + 1] < Len(current_group.subgroups)
            THEN levels(i + 1, current_group.subgroups[ix[i + 1] + 1],
                        total + 1 + sum(SubSeq(current_group.subgroups, 1, ix[i + 1])))
            ELSE levels(i + 1, current_group,
                        total + 1 + sum(current_group.subgroups)
                              + (ix[i + 1] - Len(current_group.subgroups)))
        first == ix[1]
    IN  \* both the loop over 0..first and groups.get(first) fail past the end
        IF first >= Len(context.groups) THEN [res |-> "GroupNotFound"]
        ELSE [res |-> "Ok",
              val |-> levels(1, context.groups[first + 1],
                             sum(SubSeq(context.groups, 1, first)))]

\* height is what crossterm::terminal::size() reports (rows), or 10.
vert_offset(ix, context, height) ==
    LET cursor == vert_pos(ix, context)
    IN  IF cursor.res # "Ok" THEN cursor
        ELSE [res |-> "Ok", val |-> (cursor.val \div 4) * height]

\* The outcomes of vert_pos - vert_offset.  A usize subtraction below zero
\* aborts when overflow checks are on and wraps when they are off: the
\* wrapped result is given as the negative difference d, which stands for
\* 2^64 + d.
vert_pos_offset(ix, context, height) ==
    LET pos == vert_pos(ix, context)
        off == vert_offset(ix, context, height)
    IN  IF pos.res # "Ok" THEN {pos}
        ELSE IF off.res # "Ok" THEN {off}
        ELSE IF pos.val < off.val
        THEN {[res |-> "Panic"], [res |-> "Ok", val |-> pos.val - off.val]}
        ELSE {[res |-> "Ok", val |-> pos.val - off.val]}

(***************************************************************************)
(* Event loop (main.rs)                                                    *)
(*                                                                         *)
(* One iteration that finds an event (poll returns true) runs, in order:   *)
(* fixing blanks, the archive sweep, the handler of the event, fixing      *)
(* blanks again, draw_vis (which only writes to the terminal).  An action  *)
(* below is one such iteration.  An iteration whose poll times out does    *)
(* nothing; PollTimeout is the time that passes meanwhile.                 *)
(*                                                                         *)
(* A handler is an operator on the cursor path and the configuration the   *)
(* sweep left behind.  It yields res = "Ok" with the configuration and the *)
(* path it leaves, or the error its `?` passes to main, or "Panic"; main   *)
(* then leaves the loop and the variable ended records why ("quit" after   *)
(* a break).  Nothing runs once the loop is left.  A key pressed on an     *)
(* item its branch does not accept matches no branch and changes nothing.  *)
(* Time is counted in days.                                                *)
(***************************************************************************)

\* Nodes held by a forest, archived ones included (what the bound counts).
RECURSIVE count_nodes(_)
count_nodes(gs) ==
    IF gs = <<>> THEN 0
    ELSE 1 + Len(Head(gs).todos) + Len(Head(gs).completed)
         + Len(Head(gs).todo_archive)
         + count_nodes(Head(gs).subgroups) + count_nodes(Head(gs).subgroup_archive)
         + count_nodes(Tail(gs))

held_nodes(context) == count_nodes(context.groups) + count_nodes(context.archive_groups)

\* OffsetDateTime::now_local().ok(): the local time, or None when the local
\* offset cannot be determined.
NowLocal == {<<>>, <<now>>}

\* Vec::swap
Swap(v, i, j) == [v EXCEPT ![i + 1] = v[j + 1], ![j + 1] = v[i + 1]]

Handled(res, context, ix) == [res |-> res, config |-> context, indexes |-> ix]

\* h.op(&config).ok(): the Result is dropped and the indexes the operation
\* left behind stay; an abort inside the operation is not a Result.
dropped(r, context) ==
    Handled(IF r.res = "Panic" THEN "Panic" ELSE "Ok", context, r.indexes)

\* The calls of now_local() one sweep makes: one for every todo of completed
\* that has a done_time, in the groups the traversal reaches.
RECURSIVE now_local_calls(_)
now_local_calls(gs) ==
    IF gs = <<>> THEN 0
    ELSE LET RECURSIVE with_done_time(_)
             with_done_time(ts) ==
                 IF ts = <<>> THEN 0
                 ELSE (IF Head(ts).done_time # <<>> THEN 1 ELSE 0) + with_done_time(Tail(ts))
         IN  with_done_time(Head(gs).completed)
             + now_local_calls(Head(gs).subgroups) + now_local_calls(Tail(gs))

\* The archive sweep: for group in config.groups.iter_mut() { traverse_mut }
archive_sweep(context, env) ==
    LET RECURSIVE over_groups(_, _, _)
        over_groups(gs, k, e) ==
            IF k > Len(gs) THEN gs
            ELSE LET r == traverse_mut(gs[k],
                              [archive_time |-> context.archive_time, env |-> e],
                              "archive_sweep", 0)
                 IN  over_groups([gs EXCEPT ![k] = r[2]], k + 1, r[1].env)
    IN  [context EXCEPT !.groups = over_groups(context.groups, 1, env)]

create_top_group(context, name) ==
    [context EXCEPT !.groups = Append(@, NewGroup(name, FALSE))]

toggle_group(ix, context) ==
    LET item == find_item(ix, context)
        item_mut == find_item_mut(ix, context)
    IN  IF item.res # "Ok" THEN Handled(item.res, context, ix)
        ELSE IF item.kind # "Group" THEN Handled("Ok", context, ix)
        ELSE IF item_mut.res # "Ok" THEN Handled(item_mut.res, context, ix)
        ELSE Handled("Ok",
                 [context EXCEPT !.groups =
                     put_group(@, ix, [item_mut.item EXCEPT !.open = ~@])],
                 ix)

\* The body shared by the toggle_todo branch and activate_item.
toggle_todo_body(ix, context, now_r) ==
    LET fg == find_group_mut(ix, context)
        g == fg.group
        last == ix[Len(ix)]
        ns == Len(g.subgroups)
        nt == Len(g.todos)
    IN  IF fg.res # "Ok" THEN Handled(fg.res, context, ix)
        ELSE IF last < ns + nt
        THEN Handled("Ok",
                 [context EXCEPT !.groups = put_group(@, fg.gpath,
                     [g EXCEPT !.todos = Remove(@, last - ns),
                               !.completed = Append(@,
                                   [g.todos[last - ns + 1] EXCEPT !.done_time = now_r])])],
                 ix)
        ELSE IF last < ns + nt + Len(g.completed)
        THEN Handled("Ok",
                 [context EXCEPT !.groups = put_group(@, fg.gpath,
                     [g EXCEPT !.completed = Remove(@, last - ns - nt),
                               !.todos = Append(@,
                                   [g.completed[last - ns - nt + 1]
                                       EXCEPT !.done_time = <<>>])])],
                 ix)
        ELSE Handled("Ok", context, ix)

toggle_todo(ix, context, now_r) ==
    LET item == find_item(ix, context)
    IN  IF item.res # "Ok" THEN Handled(item.res, context, ix)
        ELSE IF item.kind # "Todo" THEN Handled("Ok", context, ix)
        ELSE toggle_todo_body(ix, context, now_r)

\* The handlers leaving the final index where it was after a removal.
step_back_never(ix, g, context) ==
    ix


\* if h.last()? >= g.len() { if h.last()? > 0 { last -= 1 } else { hierarchy_up } }
step_back(ix, g, context) ==
    IF ix[Len(ix)] >= len(g)
    THEN IF ix[Len(ix)] > 0 THEN SetLast(ix, ix[Len(ix)] - 1)
         ELSE hierarchy_up(ix, context).indexes
    ELSE ix

archive_todo(ix, context) ==
    LET item == find_item(ix, context)
        fg == find_group_mut(ix, context)
        g == fg.group
        last == ix[Len(ix)]
        ns == Len(g.subgroups)
        nt == Len(g.todos)
        from_todos == last < ns + nt
        t == IF from_todos THEN g.todos[last - ns + 1]
             ELSE g.completed[last - ns - nt + 1]
        g2 == [g EXCEPT !.todos = IF from_todos THEN Remove(@, last - ns) ELSE @,
                        !.completed = IF from_todos THEN @
                                      ELSE Remove(@, last - ns - nt),
                        !.todo_archive = Append(@, t)]
        c2 == [context EXCEPT !.groups = put_group(@, fg.gpath, g2)]
    IN  IF item.res # "Ok" THEN Handled(item.res, context, ix)
        ELSE IF item.kind # "Todo" THEN Handled("Ok", context, ix)
        ELSE IF fg.res # "Ok" THEN Handled(fg.res, context, ix)
        ELSE Handled("Ok", c2, step_back(ix, g2, c2))

hide_group(ix, context) ==
    LET item == find_item(ix, context)
        last == ix[Len(ix)]
    IN  IF item.res # "Ok" THEN Handled(item.res, context, ix)
        ELSE IF item.kind # "Group" THEN Handled("Ok", context, ix)
        ELSE IF Len(ix) = 1
        THEN LET groups == Remove(context.groups, last)
             IN  Handled("Ok",
                     [context EXCEPT !.groups = groups,
                                     !.archive_groups = Append(@, context.groups[last + 1])],
                     IF last >= Len(groups) /\ last > 0 THEN SetLast(ix, last - 1) ELSE ix)
        ELSE LET fg == find_group_mut(ix, context)
                 g == fg.group
                 g2 == [g EXCEPT !.subgroups = Remove(@, last),
                                 !.subgroup_archive = Append(@, g.subgroups[last + 1])]
                 c2 == [context EXCEPT !.groups = put_group(@, fg.gpath, g2)]
             IN  IF fg.res # "Ok" THEN Handled(fg.res, context, ix)
                 ELSE Handled("Ok", c2, step_back(ix, g2, c2))

\* created: OffsetDateTime::now_local()? comes after the prompts.
add_todo(ix, context, todo_name, now_r) ==
    LET item == find_item(ix, context)
        item_mut == find_item_mut(ix, context)
    IN  IF item.res # "Ok" THEN Handled(item.res, context, ix)
        ELSE IF item.kind # "Group" THEN Handled("Ok", context, ix)
        ELSE IF item_mut.res # "Ok" THEN Handled(item_mut.res, context, ix)
        ELSE IF now_r = <<>> THEN Handled("IndeterminateOffset", context, ix)
        ELSE Handled("Ok",
                 [context EXCEPT !.groups =
                     put_group(@, ix, [item_mut.item EXCEPT
                                          !.todos = Append(@, NewTodo(todo_name))])],
                 ix)

add_group(ix, context, group_name) ==
    LET item == find_item(ix, context)
        item_mut == find_item_mut(ix, context)
    IN  IF item.res # "Ok" THEN Handled(item.res, context, ix)
        ELSE IF item.kind # "Group" THEN Handled("Ok", context, ix)
        ELSE IF item_mut.res # "Ok" THEN Handled(item_mut.res, context, ix)
        ELSE Handled("Ok",
                 [context EXCEPT !.groups =
                     put_group(@, ix, [item_mut.item EXCEPT
                                          !.subgroups = Append(@, NewGroup(group_name, TRUE))])],
                 ix)

add_top_group(ix, context, group_name) ==
    Handled("Ok", [context EXCEPT !.groups = Append(@, NewGroup(group_name, TRUE))], ix)

\* find_group_mut hands out the parent of the item, and for a path of length
\* 1 the root group the path selects; the swap is made in its subgroups.
move_group_down(ix, context) ==
    LET item == find_item(ix, context)
        fg == find_group_mut(ix, context)
        group == fg.group
        last == ix[Len(ix)]
    IN  IF item.res # "Ok" THEN Handled(item.res, context, ix)
        ELSE IF item.kind # "Group" THEN Handled("Ok", context, ix)
        ELSE IF fg.res # "Ok" THEN Handled(fg.res, context, ix)
        ELSE IF last + 1 < Len(group.subgroups)
        THEN Handled("Ok",
                 [context EXCEPT !.groups = put_group(@, fg.gpath,
                     [group EXCEPT !.subgroups = Swap(@, last, last + 1)])],
                 SetLast(ix, last + 1))
        ELSE Handled("Ok", context, ix)

move_group_up(ix, context) ==
    LET item == find_item(ix, context)
        fg == find_group_mut(ix, context)
        group == fg.group
        last == ix[Len(ix)]
    IN  IF item.res # "Ok" THEN Handled(item.res, context, ix)
        ELSE IF item.kind # "Group" THEN Handled("Ok", context, ix)
        ELSE IF fg.res # "Ok" THEN Handled(fg.res, context, ix)
        ELSE IF last > 0
        THEN IF last >= Len(group.subgroups)
             THEN Handled("Panic", context, ix)      \* swap past the end
             ELSE Handled("Ok",
                      [context EXCEPT !.groups = put_group(@, fg.gpath,
                          [group EXCEPT !.subgroups = Swap(@, last, last - 1)])],
                      SetLast(ix, last - 1))
        ELSE Handled("Ok", context, ix)

\* move_todo_down swapping without taking the cursor along.
move_todo_down_cursor_stays(ix, context) ==
    LET item == find_item(ix, context)
        fg == find_group_mut(ix, context)
        group == fg.group
        last == ix[Len(ix)]
        ns == Len(group.subgroups)
    IN  IF item.res # "Ok" THEN Handled(item.res, context, ix)
        ELSE IF item.kind # "Todo" THEN Handled("Ok", context, ix)
        ELSE IF fg.res # "Ok" THEN Handled(fg.res, context, ix)
        ELSE IF last + 1 < ns + Len(group.todos) /\ last >= ns
        THEN Handled("Ok",
                 [context EXCEPT !.groups = put_group(@, fg.gpath,
                     [group EXCEPT !.todos = Swap(@, last - ns, last + 1 - ns)])],
                 ix)
        ELSE Handled("Ok", context, ix)


move_todo_down(ix, context) ==
    LET item == find_item(ix, context)
        fg == find_group_mut(ix, context)
        group == fg.group
        last == ix[Len(ix)]
        ns == Len(group.subgroups)
    IN  IF item.res # "Ok" THEN Handled(item.res, context, ix)
        ELSE IF item.kind # "Todo" THEN Handled("Ok", context, ix)
        ELSE IF fg.res # "Ok" THEN Handled(fg.res, context, ix)
        ELSE IF last + 1 < ns + Len(group.todos) /\ last >= ns
        THEN Handled("Ok",
                 [context EXCEPT !.groups = put_group(@, fg.gpath,
                     [group EXCEPT !.todos = Swap(@, last - ns, last + 1 - ns)])],
                 SetLast(ix, last + 1))
        ELSE Handled("Ok", context, ix)

move_todo_up(ix, context) ==
    LET item == find_item(ix, context)
        fg == find_group_mut(ix, context)
        group == fg.group
        last == ix[Len(ix)]
        ns == Len(group.subgroups)
    IN  IF item.res # "Ok" THEN Handled(item.res, context, ix)
        ELSE IF item.kind # "Todo" THEN Handled("Ok", context, ix)
        ELSE IF fg.res # "Ok" THEN Handled(fg.res, context, ix)
        ELSE IF last > ns /\ last < ns + Len(group.todos)
        THEN Handled("Ok",
                 [context EXCEPT !.groups = put_group(@, fg.gpath,
                     [group EXCEPT !.todos = Swap(@, last - ns, last - 1 - ns)])],
                 SetLast(ix, last - 1))
        ELSE Handled("Ok", context, ix)

\* ALT + clean
clean(ix, context) ==
    Handled("Ok",
        [context EXCEPT
            !.archive_groups = <<>>,
            !.groups = [k \in 1..Len(@) |-> traverse_mut(@[k], <<>>, "clean", 0)[2]]],
        ix)

activate_item(ix, context, now_r) ==
    LET item == find_item(ix, context)
        item_mut == find_item_mut(ix, context)
    IN  IF item.res # "Ok" THEN Handled(item.res, context, ix)
        ELSE IF item.kind = "Group"
        THEN IF item_mut.res # "Ok" THEN Handled(item_mut.res, context, ix)
             ELSE Handled("Ok",
                      [context EXCEPT !.groups =
                          put_group(@, ix, [item_mut.item EXCEPT !.open = ~@])],
                      ix)
        ELSE toggle_todo_body(ix, context, now_r)

\* Left button down in row `row`, up to the call of activate_item:
\* h.indexes = vec![0]; for _ in 1..me.row { h.cursor_down(&config)?; }
cursor_to_row(row, context) ==
    LET RECURSIVE steps(_, _)
        steps(n, ix) ==
            IF n <= 0 THEN Ret("Ok", ix)
            ELSE LET r == cursor_down(ix, context)
                 IN  IF r.res # "Ok" THEN r ELSE steps(n - 1, r.indexes)
    IN  steps(row - 1, <<0>>)

Init ==
    /\ config = [groups |-> <<NewGroup("A", TRUE)>>, archive_groups |-> <<>>,
                 archive_time |-> ArchiveTime]
    /\ indexes = <<0>>
    /\ now = 0
    /\ ended = ""

\* What the now_local() calls of one sweep of context may return, call by call.
SweepEnvs(context) == [1..now_local_calls(context.groups) -> NowLocal]

\* The configurations the sweep of this iteration may leave behind.
Swept == {archive_sweep(config, env) : env \in SweepEnvs(config)}

\* The condition of the key's branch, matches!(h.find_item(&config)?.item, kind),
\* does not say false: find_item fails, and the `?` makes main return (the
\* handler operators yield that error), or the item is of this kind.  (On an
\* item of the other kind the key matches no branch and the iteration is
\* that of KeySave.)
Accepts(kind, context) ==
    find_item(indexes, context).res = "Ok" => find_item(indexes, context).kind = kind

\* The rest of an iteration whose handler yielded r: main returns the error,
\* or goes on to fixing blanks (and draws, dropping the Result of draw_vis).
\* The head of an iteration never finds groups empty, because Init has a
\* group and every iteration ends here.
Edited(r) ==
    /\ ended = ""
    /\ indexes' = r.indexes
    /\ now' = now
    /\ IF r.res # "Ok"
       THEN ended' = r.res /\ config' = r.config
       ELSE /\ ended' = ""
            /\ IF r.config.groups = <<>>
               THEN /\ held_nodes(r.config) < MaxNodes
                    /\ \E name \in GroupNames : config' = create_top_group(r.config, name)
               ELSE config' = r.config

KeyCursorUp == \E c \in Swept : Edited(dropped(cursor_up(indexes, c), c))

KeyCursorDown == \E c \in Swept : Edited(dropped(cursor_down(indexes, c), c))

KeyGroupUp == \E c \in Swept : Edited(dropped(group_up(indexes, c), c))

KeyGroupDown == \E c \in Swept : Edited(dropped(group_down(indexes, c), c))

KeyHierarchyUp == \E c \in Swept : Edited(dropped(hierarchy_up(indexes, c), c))

\* h.hierarchy_down(&mut config).ok()
KeyHierarchyDown ==
    \E c \in Swept :
        LET r == hierarchy_down(indexes, c)
        IN  Edited(Handled(IF r.res = "Panic" THEN "Panic" ELSE "Ok", r.config, r.indexes))

\* quit, with ALT or without: break, after write_config unless ALT is held.
KeyQuit ==
    \E c \in Swept :
        /\ ended = ""
        /\ ended' = "quit"
        /\ config' = c
        /\ UNCHANGED <<indexes, now>>

\* save writes the file; a key that matches no branch does nothing.
KeySave == \E c \in Swept : Edited(Handled("Ok", c, indexes))

KeyToggleGroup ==
    \E c \in Swept : Accepts("Group", c) /\ Edited(toggle_group(indexes, c))

KeyToggleTodo ==
    \E c \in Swept, now_r \in NowLocal :
        Accepts("Todo", c) /\ Edited(toggle_todo(indexes, c, now_r))

KeyArchiveTodo ==
    \E c \in Swept : Accepts("Todo", c) /\ Edited(archive_todo(indexes, c))

KeyHideGroup ==
    \E c \in Swept : Accepts("Group", c) /\ Edited(hide_group(indexes, c))

KeyAddTodo ==
    /\ held_nodes(config) < MaxNodes
    /\ \E c \in Swept, now_r \in NowLocal, todo_name \in TodoNames :
         Accepts("Group", c) /\ Edited(add_todo(indexes, c, todo_name, now_r))

KeyAddGroup ==
    /\ held_nodes(config) < MaxNodes
    /\ \E c \in Swept, group_name \in GroupNames :
         Accepts("Group", c) /\ Edited(add_group(indexes, c, group_name))

KeyAddTopGroup ==
    /\ held_nodes(config) < MaxNodes
    /\ \E c \in Swept, group_name \in GroupNames :
         Edited(add_top_group(indexes, c, group_name))

KeyMoveGroupDown ==
    \E c \in Swept : Accepts("Group", c) /\ Edited(move_group_down(indexes, c))

KeyMoveGroupUp ==
    \E c \in Swept : Accepts("Group", c) /\ Edited(move_group_up(indexes, c))

KeyMoveTodoDown ==
    \E c \in Swept : Accepts("Todo", c) /\ Edited(move_todo_down(indexes, c))

KeyMoveTodoUp ==
    \E c \in Swept : Accepts("Todo", c) /\ Edited(move_todo_up(indexes, c))

KeyClean == \E c \in Swept : Edited(clean(indexes, c))

\* The click once the walk to its row has yielded at: the `?` on a failed
\* cursor_down returns from main, otherwise activate_item(&mut cursor, &mut config)?
Clicked(at, context) ==
    IF at.res # "Ok" THEN Edited(Handled(at.res, context, at.indexes))
    ELSE \E now_r \in NowLocal : Edited(activate_item(at.indexes, context, now_r))

\* Rows 0 and 1 both run the loop zero times; the rows go one past the most
\* rows a forest of MaxNodes nodes can show.
MouseDown ==
    \E c \in Swept, row \in 1..(MaxNodes + 1) : Clicked(cursor_to_row(row, c), c)

\* poll(1s) returns false: no event, nothing runs, time passes.
PollTimeout ==
    /\ ended = ""
    /\ now < MaxTime
    /\ now' = now + 1
    /\ UNCHANGED <<config, indexes, ended>>

Next ==
    \/ KeyQuit
    \/ KeyCursorUp
    \/ KeyCursorDown
    \/ KeyGroupUp
    \/ KeyGroupDown
    \/ KeyHierarchyUp
    \/ KeyHierarchyDown
    \/ KeySave
    \/ KeyToggleGroup
    \/ KeyToggleTodo
    \/ KeyArchiveTodo
    \/ KeyHideGroup
    \/ KeyAddTodo
    \/ KeyAddGroup
    \/ KeyAddTopGroup
    \/ KeyMoveGroupDown
    \/ KeyMoveGroupUp
    \/ KeyMoveTodoDown
    \/ KeyMoveTodoUp
    \/ KeyClean
    \/ MouseDown
    \/ PollTimeout

Spec == Init /\ [][Next]_vars

(***************************************************************************)
(* Scrolling model: the configuration file holds one open group with up to *)
(* MaxScrollTodos todos; the cursor walks over it and todos are toggled.   *)
(***************************************************************************)

InitScroll ==
    /\ \E n \in 0..MaxScrollTodos :
          config = [groups |-> <<[NewGroup("A", TRUE) EXCEPT
                                    !.todos = [k \in 1..n |-> NewTodo("T1")]]>>,
                    archive_groups |-> <<>>,
                    archive_time |-> ArchiveTime]
    /\ indexes = <<0>>
    /\ now = 0
    /\ ended = ""

NextScroll ==
    \/ KeyCursorUp
    \/ KeyCursorDown
    \/ KeyToggleTodo

SpecScroll == InitScroll /\ [][NextScroll]_vars

(***************************************************************************)
(* Vocabulary of the properties                                            *)
(***************************************************************************)

\* The group reached by following route gp from the forest gs.
RECURSIVE GroupAt(_, _)
GroupAt(gs, gp) ==
    IF Len(gp) = 1 THEN gs[gp[1] + 1]
    ELSE GroupAt(gs[gp[1] + 1].subgroups, Tail(gp))

\* Every index of route gp selects an existing group, level by level.
RECURSIVE RouteInBounds(_, _)
RouteInBounds(gs, gp) ==
    \/ gp = <<>>
    \/ /\ gp[1] < Len(gs)
       /\ RouteInBounds(gs[gp[1] + 1].subgroups, Tail(gp))

\* indexes[0] and the intermediate indices of a path: all but the final
\* index, and the only index of a path of length 1.
Route(p) == IF Len(p) = 1 THEN p ELSE SubSeq(p, 1, Len(p) - 1)

Last(p) == p[Len(p)]

\* The visible children of a group in display order, each with the vector it
\* lives in and its position there.
Tagged(container, kind, v) ==
    [k \in 1..Len(v) |-> [container |-> container, kind |-> kind, pos |-> k - 1, item |-> v[k]]]

Children(g) ==
    Tagged("subgroups", "Group", g.subgroups)
        \o Tagged("todos", "Todo", g.todos)
        \o Tagged("completed", "Todo", g.completed)

\* Paths worth asking about in a forest: every path that addresses a node,
\* every path whose final index is one past the end of its level, and every
\* path that tries to pass through a todo or through a missing group.
RECURSIVE PathsUnder(_, _)
PathsUnder(g, p) ==
    UNION { {Append(p, i)}
            \cup (IF i < Len(g.subgroups)
                  THEN PathsUnder(g.subgroups[i + 1], Append(p, i))
                  ELSE {Append(Append(p, i), j) : j \in 0..1})
            : i \in 0..len(g) }

CandidatePaths(context) ==
    UNION { {<<i>>}
            \cup (IF i < Len(context.groups)
                  THEN PathsUnder(context.groups[i + 1], <<i>>)
                  ELSE {<<i, j>> : j \in 0..1})
            : i \in 0..Len(context.groups) }

\* The same forest with every live node named by its own path, so that a
\* rendered row tells which node it shows.
RECURSIVE NamedByPath(_, _)
NamedByPath(g, p) ==
    LET ns == Len(g.subgroups)
        nt == Len(g.todos)
    IN  [g EXCEPT
            !.name = p,
            !.subgroups = [k \in 1..ns |-> NamedByPath(g.subgroups[k], Append(p, k - 1))],
            !.todos = [k \in 1..nt |-> [g.todos[k] EXCEPT !.name = Append(p, ns + k - 1)]],
            !.completed = [k \in 1..Len(g.completed) |->
                              [g.completed[k] EXCEPT !.name = Append(p, ns + nt + k - 1)]]]

PathNamed(context) ==
    [context EXCEPT !.groups =
        [k \in 1..Len(context.groups) |-> NamedByPath(context.groups[k], <<k - 1>>)]]

\* The paths of the visible rows, top to bottom, as the rendering fold emits them.
Rows(context) ==
    LET out == format_hierarchy(PathNamed(context))
    IN  [k \in 1..Len(out) |-> out[k].name]

\* p addresses an item whose proper ancestor groups are all open.
Visible(p, context) == \E k \in 1..Len(Rows(context)) : Rows(context)[k] = p

LastRow(p, context) ==
    /\ Rows(context) # <<>>
    /\ Rows(context)[Len(Rows(context))] = p

\* The groups of a forest, at every depth (archived subgroups apart).
RECURSIVE LiveGroups(_)
LiveGroups(gs) ==
    UNION { {gs[k]} \cup LiveGroups(gs[k].subgroups) : k \in 1..Len(gs) }

\* The paths that address a todo.
TodoPaths(context) ==
    {p \in CandidatePaths(context) :
        /\ find_item(p, context).res = "Ok"
        /\ find_item(p, context).kind = "Todo"}

\* The path of the todo addressed by p once it is toggled: toggling pushes it
\* to the end of the other vector of its group.
PathAfterToggle(p, context) ==
    LET g == find_group(p, context).group
    IN  IF find_item(p, context).container = "todos"
        THEN SetLast(p, len(g) - 1)
        ELSE SetLast(p, Len(g.subgroups) + Len(g.todos))

\* The paths that address a group; the path of a group is also its route.
GroupPaths(context) ==
    {p \in CandidatePaths(context) :
        /\ find_item(p, context).res = "Ok"
        /\ find_item(p, context).kind = "Group"}

\* now - done_time > archive_time at the present clock.
Expired(t, context) ==
    t.done_time # <<>> /\ now - t.done_time[1] > context.archive_time

\* A sweep whose every call of now_local() succeeds, and one whose every
\* call fails.
AlwaysAvailable(context) == [k \in 1..now_local_calls(context.groups) |-> <<now>>]
NeverAvailable(context) == [k \in 1..now_local_calls(context.groups) |-> <<>>]

\* The elements of a vector as a set.
Elements(v) == {v[k] : k \in 1..Len(v)}

\* The todos without done_time among todos and completed of g and of its
\* subgroups at every depth.
RECURSIVE ActiveTodos(_)
ActiveTodos(g) ==
    LET RECURSIVE below(_)
        below(gs) == IF gs = <<>> THEN 0 ELSE ActiveTodos(Head(gs)) + below(Tail(gs))
    IN  Cardinality({k \in 1..Len(g.todos) : g.todos[k].done_time = <<>>})
        + Cardinality({k \in 1..Len(g.completed) : g.completed[k].done_time = <<>>})
        + below(g.subgroups)

\* g with the open flag of every group of its subtree set to b.
RECURSIVE WithOpen(_, _)
WithOpen(g, b) ==
    [g EXCEPT !.open = b,
              !.subgroups = [k \in 1..Len(g.subgroups) |-> WithOpen(g.subgroups[k], b)]]

\* The calls a traversal of g at depth d makes when every pre_handle says
\* to descend, in the order section 4.2 gives.
RECURSIVE ExpectedCalls(_, _)
ExpectedCalls(g, d) ==
    LET RECURSIVE below(_)
        below(gs) ==
            IF gs = <<>> THEN <<>> ELSE ExpectedCalls(Head(gs), d + 1) \o below(Tail(gs))
    IN  <<Call("pre", g.name, d)>>
        \o below(g.subgroups)
        \o [k \in 1..Len(g.todos) |-> Call("todo", g.todos[k].name, d + 1)]
        \o [k \in 1..Len(g.completed) |-> Call("todo", g.completed[k].name, d + 1)]
        \o <<Call("post", g.name, d)>>

\* How often a log of calls records the call `kind` on the node named name,
\* and where.
Positions(log, kind, name) ==
    {k \in 1..Len(log) : log[k].call = kind /\ log[k].name = name}

\* q is p or lies below p.
IsPrefix(p, q) == Len(p) <= Len(q) /\ SubSeq(q, 1, Len(p)) = p

\* Every group on the way from the root group <<p[1]>> down to the parent of
\* the node addressed by p is open.
AncestorsOpen(p, context) ==
    \A n \in 1..(Len(p) - 1) : GroupAt(context.groups, SubSeq(p, 1, n)).open

\* Section 8 scenario: one open root group A, subgroups = [], todos = [T1, T2].
ScenarioA ==
    <<[NewGroup("A", TRUE) EXCEPT !.todos = <<NewTodo("T1"), NewTodo("T2")>>]>>

\* Two names no path is: what every archived node is called in Marked, and
\* what the prompts answer in Outcomes.
WasArchived == <<-1>>
Fresh == <<-2>>

\* g with every node in it, archived or not, called WasArchived.
RECURSIVE MarkAll(_)
MarkAll(g) ==
    LET marked(ts) == [k \in 1..Len(ts) |-> [ts[k] EXCEPT !.name = WasArchived]]
        all(gs) == [k \in 1..Len(gs) |-> MarkAll(gs[k])]
    IN  [g EXCEPT !.name = WasArchived,
                  !.todos = marked(@), !.completed = marked(@), !.todo_archive = marked(@),
                  !.subgroups = all(@), !.subgroup_archive = all(@)]

\* The live group g with every node of its archives, and of the archives of
\* its subgroups, called WasArchived.
RECURSIVE MarkArchives(_)
MarkArchives(g) ==
    [g EXCEPT !.todo_archive = [k \in 1..Len(@) |-> [@[k] EXCEPT !.name = WasArchived]],
              !.subgroup_archive = [k \in 1..Len(@) |-> MarkAll(@[k])],
              !.subgroups = [k \in 1..Len(@) |-> MarkArchives(@[k])]]

\* The configuration with every live node named by its path and every
\* archived node called WasArchived.
Marked(context) ==
    LET c == PathNamed(context)
    IN  [c EXCEPT !.groups = [k \in 1..Len(@) |-> MarkArchives(@[k])],
                  !.archive_groups = [k \in 1..Len(@) |-> MarkAll(@[k])]]

\* What one iteration of the loop can leave behind from the path ix and the
\* configuration context: every outcome of the sweep followed by every
\* handler, the prompts answering Fresh.
Outcomes(ix, context) ==
    UNION { {hierarchy_down(ix, c)}
            \cup {dropped(r, c) : r \in {cursor_up(ix, c), cursor_down(ix, c),
                                         group_up(ix, c), group_down(ix, c),
                                         hierarchy_up(ix, c)}}
            \cup {toggle_group(ix, c), archive_todo(ix, c), hide_group(ix, c),
                  add_group(ix, c, Fresh), add_top_group(ix, c, Fresh),
                  move_group_down(ix, c), move_group_up(ix, c),
                  move_todo_down(ix, c), move_todo_up(ix, c), clean(ix, c)}
            \cup UNION { {toggle_todo(ix, c, now_r), add_todo(ix, c, Fresh, now_r)}
                         \cup {activate_item(cursor_to_row(row, c).indexes, c, now_r)
                                  : row \in 1..(MaxNodes + 1)}
                         : now_r \in NowLocal }
            : c \in {archive_sweep(context, env) : env \in SweepEnvs(context)} }

\* The names of the nodes of the live forest gs: its groups at every depth
\* and the todos of their todos and completed vectors.
RECURSIVE LiveNames(_)
LiveNames(gs) ==
    UNION { {gs[k].name}
            \cup {t.name : t \in Elements(gs[k].todos) \cup Elements(gs[k].completed)}
            \cup LiveNames(gs[k].subgroups)
            : k \in 1..Len(gs) }

\* The todos a forest holds, in whatever vector, archives included.
RECURSIVE held_todos(_)
held_todos(gs) ==
    IF gs = <<>> THEN 0
    ELSE Len(Head(gs).todos) + Len(Head(gs).completed) + Len(Head(gs).todo_archive)
         + held_todos(Head(gs).subgroups) + held_todos(Head(gs).subgroup_archive)
         + held_todos(Tail(gs))

\* The item under p is a group that is open and not empty.
OpenNonEmptyGroup(p, context) ==
    LET item == find_item(p, context)
    IN  item.res = "Ok" /\ item.kind = "Group" /\ item.item.open /\ ~is_empty(item.item)

\* The last visible descendant of the item under p: p itself, unless it is
\* an open non-empty group, and then that of its last child.
RECURSIVE LastVisibleDescendant(_, _)
LastVisibleDescendant(p, context) ==
    IF OpenNonEmptyGroup(p, context)
    THEN LastVisibleDescendant(Append(p, len(find_item(p, context).item) - 1), context)
    ELSE p

(***************************************************************************)
(* Properties                                                              *)
(***************************************************************************)

\* C1: whenever the cursor addresses an item whose proper ancestors are all
\* open and which is not the last visible row, cursor_down returns Ok and
\* vert_pos of the resulting path is vert_pos of the original path plus 1.
C1_CursorDownAdvancesOneRow ==
    (Visible(indexes, config) /\ ~LastRow(indexes, config)) =>
        LET r == cursor_down(indexes, config)
        IN  /\ r.res = "Ok"
            /\ vert_pos(r.indexes, config).res = "Ok"
            /\ vert_pos(r.indexes, config).val = vert_pos(indexes, config).val + 1

\* C2: whenever the cursor addresses an item whose proper ancestors are all
\* open and which is not the first visible row [0], cursor_up returns Ok and
\* vert_pos of the resulting path is vert_pos of the original path minus 1.
C2_CursorUpRetreatsOneRow ==
    (Visible(indexes, config) /\ indexes # <<0>>) =>
        LET r == cursor_up(indexes, config)
        IN  /\ r.res = "Ok"
            /\ vert_pos(r.indexes, config).res = "Ok"
            /\ vert_pos(r.indexes, config).val = vert_pos(indexes, config).val - 1

\* C3: when the cursor addresses the last visible row, cursor_down leaves the
\* path unchanged; in the scenario forest (open root A, todos [T1, T2]) the
\* cursor_down calls from [0] give [0,0], then [0,1], then [0,1] again.
C3_CursorDownStaysOnLastRow ==
    /\ LastRow(indexes, config) => cursor_down(indexes, config).indexes = indexes
    /\ config.groups = ScenarioA =>
         /\ cursor_down(<<0>>, config).indexes = <<0, 0>>
         /\ cursor_down(<<0, 0>>, config).indexes = <<0, 1>>
         /\ cursor_down(<<0, 1>>, config).indexes = <<0, 1>>

\* C4: from every valid cursor path that is not the last visible row,
\* cursor_down followed by cursor_up (tree unchanged) gives the original path.
C4_DownThenUpIsIdentity ==
    (find_item(indexes, config).res = "Ok" /\ ~LastRow(indexes, config)) =>
        cursor_up(cursor_down(indexes, config).indexes, config).indexes = indexes

\* C5: for every path that addresses an item whose proper ancestors are all
\* open, vert_pos is the 0-based index of the row the rendering fold emits
\* for that item; with root A open and todos [T1, T2], vert_pos([0,1]) = 2.
C5_VertPosIsRenderedRow ==
    /\ \A k \in 1..Len(Rows(config)) :
          LET v == vert_pos(Rows(config)[k], PathNamed(config))
          IN  v.res = "Ok" /\ v.val = k - 1
    /\ config.groups = ScenarioA => vert_pos(<<0, 1>>, config) = [res |-> "Ok", val |-> 2]

\* The cursor is on a completed todo of an open root group, below that
\* group's closed subgroup, which hides a todo of its own: row 2 of the
\* rendering, although three items precede it in the tree.
C5_Witness ==
    /\ indexes = <<0, 1>>
    /\ config.groups[1].open
    /\ Len(config.groups[1].subgroups) = 1
    /\ ~config.groups[1].subgroups[1].open
    /\ Len(config.groups[1].subgroups[1].todos) = 1
    /\ find_item(indexes, config).res = "Ok"
    /\ find_item(indexes, config).container = "completed"
    /\ Len(Rows(config)) = 3
    /\ Rows(config)[3] = indexes
    /\ vert_pos(indexes, config).val = 2

\* C6: a closed group counts as exactly one row for the sibling directly
\* after it, whatever it contains: if path b addresses a closed group and the
\* path x with the final index one larger addresses an item, then
\* vert_pos(x) = vert_pos(b) + 1.
C6_ClosedGroupIsOneRow ==
    \A b \in CandidatePaths(config) :
        LET x == [b EXCEPT ![Len(b)] = Last(b) + 1]
            fb == find_item(b, config)
        IN  (/\ fb.res = "Ok"
             /\ fb.kind = "Group"
             /\ ~fb.item.open
             /\ find_item(x, config).res = "Ok")
            => /\ vert_pos(b, config).res = "Ok"
               /\ vert_pos(x, config).res = "Ok"
               /\ vert_pos(x, config).val = vert_pos(b, config).val + 1

\* Section 8 scenario: root group B is closed and holds 2 todos, and another
\* root group follows it on row 1.
C6_Witness ==
    /\ Len(config.groups) >= 2
    /\ ~config.groups[1].open
    /\ Len(config.groups[1].todos) = 2
    /\ vert_pos(<<0>>, config).val = 0
    /\ vert_pos(<<1>>, config).val = 1

\* C7: for a path of length >= 2 whose route resolves to the parent group G,
\* find_item takes the final index i in the order subgroups, todos,
\* completed: it yields element i of G's visible children (the subgroup, the
\* active todo or the completed todo at that place); a path of length 1
\* yields the root group groups[indexes[0]].
C7_FindItemDisplayOrder ==
    \A p \in CandidatePaths(config) :
        LET r == find_item(p, config)
        IN  /\ (Len(p) = 1 /\ p[1] < Len(config.groups)) =>
                  /\ r.res = "Ok"
                  /\ r.kind = "Group"
                  /\ r.item = config.groups[p[1] + 1]
            /\ (Len(p) >= 2 /\ RouteInBounds(config.groups, Route(p))) =>
                  LET G == GroupAt(config.groups, Route(p))
                  IN  Last(p) < len(G) =>
                        LET c == Children(G)[Last(p) + 1]
                        IN  /\ r.res = "Ok"
                            /\ r.kind = c.kind
                            /\ r.item = c.item
                            /\ r.container = c.container
                            /\ r.pos = c.pos

\* The cursor is on the completed todo of a group that also has a subgroup
\* and an active todo that differs from it: all three ranges are inhabited.
C7_Witness ==
    /\ Len(indexes) = 2
    /\ LET G == GroupAt(config.groups, Route(indexes))
       IN  /\ Len(G.subgroups) = 1
           /\ Len(G.todos) = 1
           /\ Len(G.completed) = 1
           /\ G.todos[1] # G.completed[1]
           /\ indexes[2] = 2
           /\ find_item(indexes, config).res = "Ok"
           /\ find_item(indexes, config).item = G.completed[1]

\* C8: find_item on a non-empty path returns GroupNotFound when indexes[0] or
\* an intermediate index is out of bounds for its level, OutOfBounds when
\* those resolve but the final index is not below the resolved group's child
\* count, and Ok in every other case.
C8_FindItemErrorKinds ==
    \A p \in CandidatePaths(config) :
        find_item(p, config).res =
            IF ~RouteInBounds(config.groups, Route(p)) THEN "GroupNotFound"
            ELSE IF Len(p) >= 2 /\ Last(p) >= len(GroupAt(config.groups, Route(p)))
            THEN "OutOfBounds"
            ELSE "Ok"

\* In one forest all three outcomes occur, GroupNotFound both for a missing
\* root group and for a path that goes through a todo.
C8_Witness ==
    /\ Len(config.groups) = 1
    /\ Len(config.groups[1].subgroups) = 1
    /\ Len(config.groups[1].todos) = 1
    /\ find_item(<<0, 1>>, config).res = "Ok"
    /\ find_item(<<0, 2>>, config).res = "OutOfBounds"
    /\ find_item(<<0, 1, 0>>, config).res = "GroupNotFound"
    /\ find_item(<<1>>, config).res = "GroupNotFound"
    /\ find_item(<<0, 0, 0>>, config).res = "OutOfBounds"

\* C9: find_item, find_item_mut, find_group and find_group_mut called with an
\* empty index path fail with the typed error NoIndex.
C9_EmptyPathGivesNoIndex ==
    /\ find_item(<<>>, config).res = "NoIndex"
    /\ find_item_mut(<<>>, config).res = "NoIndex"
    /\ find_group(<<>>, config).res = "NoIndex"
    /\ find_group_mut(<<>>, config).res = "NoIndex"

\* C10: for every path, find_item and find_item_mut have the same outcome:
\* the same error kind, or the same item (kind, vector and position) with
\* depth = len(path) - 1.
C10_FindItemMutAgrees ==
    \A p \in CandidatePaths(config) \cup {<<>>} :
        LET r == find_item(p, config)
            m == find_item_mut(p, config)
        IN  /\ r.res = m.res
            /\ r.res = "Ok" =>
                 /\ r.kind = m.kind
                 /\ r.container = m.container
                 /\ r.pos = m.pos
                 /\ r.item = m.item
                 /\ r.depth = Len(p) - 1
                 /\ m.depth = Len(p) - 1

\* The cursor addresses, at depth 2, a completed todo that both lookups find,
\* in a forest where a stale path makes both fail.
C10_Witness ==
    /\ Len(indexes) = 3
    /\ find_item(indexes, config).res = "Ok"
    /\ find_item_mut(indexes, config).res = "Ok"
    /\ find_item_mut(indexes, config).container = "completed"
    /\ find_item_mut(indexes, config).depth = 2
    /\ find_item(Append(indexes, 0), config).res = "GroupNotFound"
    /\ find_item_mut(Append(indexes, 0), config).res = "GroupNotFound"

\* C11: every step that changes the tree (a handler's edit or the sweep of
\* the iteration), taken from a state whose cursor path resolves, ends in a
\* state whose cursor path resolves.
C11_MutationKeepsCursorResolving ==
    [][(find_item(indexes, config).res = "Ok" /\ config' # config)
          => find_item(indexes', config').res = "Ok"]_vars

\* C12: in every reachable state, in every group, each todo of completed has
\* a done_time and each todo of todos has none.
C12_DoneTimeIffCompleted ==
    \A g \in LiveGroups(config.groups) :
        /\ \A k \in 1..Len(g.completed) : g.completed[k].done_time # <<>>
        /\ \A k \in 1..Len(g.todos) : g.todos[k].done_time = <<>>

\* C13: toggling the same todo twice (whatever now_local() returns each
\* time) puts it back in the vector it was in, with done_time set exactly if
\* it was set before, and neither toggle changes len() of its group.
C13_ToggleTwiceRestores ==
    \A p \in TodoPaths(config) : \A n1 \in NowLocal, n2 \in NowLocal :
        LET c0 == PathNamed(config)
            i0 == find_item(p, c0)
            r1 == toggle_todo(p, c0, n1)
            p1 == PathAfterToggle(p, c0)
            r2 == toggle_todo(p1, r1.config, n2)
            p2 == PathAfterToggle(p1, r1.config)
            i2 == find_item(p2, r2.config)
        IN  /\ r1.res = "Ok" /\ r2.res = "Ok"
            /\ find_item(p1, r1.config).res = "Ok"
            /\ find_item(p1, r1.config).item.name = p
            /\ i2.res = "Ok"
            /\ i2.item.name = p
            /\ i2.container = i0.container
            /\ (i2.item.done_time # <<>>) = (i0.item.done_time # <<>>)
            /\ len(find_group(p1, r1.config).group) = len(find_group(p, c0).group)
            /\ len(find_group(p2, r2.config).group) = len(find_group(p, c0).group)

\* C14: one sweep whose now_local() calls all succeed moves, in every group
\* (open or closed, at any depth), exactly the todos of completed with
\* now - done_time > archive_time to the end of that group's todo_archive;
\* the other todos of completed keep their relative order, and the group's
\* todos, open flag, name and number of subgroups stay as they were.
C14_SweepMovesExactlyExpired ==
    LET c0 == PathNamed(config)
        c1 == archive_sweep(c0, AlwaysAvailable(c0))
    IN  /\ Len(c1.groups) = Len(c0.groups)
        /\ c1.archive_groups = c0.archive_groups
        /\ \A p \in GroupPaths(c0) :
              LET g0 == GroupAt(c0.groups, p)
                  g1 == GroupAt(c1.groups, p)
                  moved == SubSeq(g1.todo_archive, Len(g0.todo_archive) + 1,
                                  Len(g1.todo_archive))
              IN  /\ g1.completed = SelectSeq(g0.completed, LAMBDA t : ~Expired(t, c0))
                  /\ SubSeq(g1.todo_archive, 1, Len(g0.todo_archive)) = g0.todo_archive
                  /\ Elements(moved) = {t \in Elements(g0.completed) : Expired(t, c0)}
                  /\ Len(moved) = Cardinality(Elements(moved))
                  /\ g1.todos = g0.todos
                  /\ g1.open = g0.open
                  /\ g1.name = g0.name
                  /\ Len(g1.subgroups) = Len(g0.subgroups)
                  /\ g1.subgroup_archive = g0.subgroup_archive

\* A closed group below the root level holds, in completed, a todo the sweep
\* moves and one it keeps.
C14_Witness ==
    \E p \in GroupPaths(config) :
        LET g == GroupAt(config.groups, p)
        IN  /\ Len(p) > 1
            /\ ~g.open
            /\ \E t \in Elements(g.completed) : Expired(t, config)
            /\ \E t \in Elements(g.completed) : t.done_time # <<>> /\ ~Expired(t, config)

\* C15: at a fixed clock, a second sweep right after a first one (the
\* now_local() calls of both succeeding) changes nothing; and a group whose
\* completed is one todo with now - done_time > archive_time and whose
\* todo_archive is empty ends with completed empty and todo_archive holding
\* exactly that todo.
C15_SweepIdempotent ==
    LET c1 == archive_sweep(config, AlwaysAvailable(config))
        c2 == archive_sweep(c1, AlwaysAvailable(c1))
    IN  /\ c2 = c1
        /\ \A p \in GroupPaths(config) :
              LET g0 == GroupAt(config.groups, p)
                  g1 == GroupAt(c1.groups, p)
              IN  (/\ Len(g0.completed) = 1
                   /\ Expired(g0.completed[1], config)
                   /\ g0.todo_archive = <<>>)
                  => (g1.completed = <<>> /\ g1.todo_archive = g0.completed)

\* Some group has the single old completed todo and an empty todo_archive,
\* and the first sweep has work in another group as well.
C15_Witness ==
    \E p \in GroupPaths(config), q \in GroupPaths(config) :
        LET g == GroupAt(config.groups, p)
        IN  /\ p # q
            /\ Len(g.completed) = 1
            /\ Expired(g.completed[1], config)
            /\ g.todo_archive = <<>>
            /\ \E t \in Elements(GroupAt(config.groups, q).completed) : Expired(t, config)

\* C16: a sweep whose now_local() calls all fail leaves the configuration
\* as it was; and whatever the calls return, the sweep runs to its end and
\* moves no more todos than calls succeeded.
C16_UnavailableTimeSkips ==
    /\ archive_sweep(config, NeverAvailable(config)) = config
    /\ \A env \in SweepEnvs(config) :
          LET c1 == archive_sweep(config, env)
              RECURSIVE archived(_)
              archived(gs) ==
                  IF gs = <<>> THEN 0
                  ELSE Len(Head(gs).todo_archive) + archived(Head(gs).subgroups)
                       + archived(Tail(gs))
          IN  /\ held_nodes(c1) = held_nodes(config)
              /\ archived(c1.groups) - archived(config.groups)
                     <= Cardinality({k \in DOMAIN env : env[k] # <<>>})

\* A group holds in completed two todos old enough to be moved, so the
\* sweep makes several now_local() calls that matter.
C16_Witness ==
    \E g \in LiveGroups(config.groups) :
        \E k \in 1..(Len(g.completed) - 1) :
            Expired(g.completed[k], config) /\ Expired(g.completed[k + 1], config)

\* C17: todo_count of a group is the number of todos without done_time
\* (done_time None = active) in the todos and completed vectors of the group
\* and of its subgroups at every depth; it is the same whatever the open
\* flags in the subtree, and the archives add nothing to it.
C17_TodoCountCountsActive ==
    \A p \in GroupPaths(config) :
        LET g == GroupAt(config.groups, p)
        IN  /\ todo_count(g) = ActiveTodos(g)
            /\ todo_count(WithOpen(g, TRUE)) = todo_count(g)
            /\ todo_count(WithOpen(g, FALSE)) = todo_count(g)

\* A closed group holds a subgroup with an active todo in it, and an
\* archived todo without done_time of its own.
C17_Witness ==
    \E p \in GroupPaths(config) :
        LET g == GroupAt(config.groups, p)
        IN  /\ ~g.open
            /\ \E k \in 1..Len(g.subgroups) : g.subgroups[k].todos # <<>>
            /\ \E t \in Elements(g.todo_archive) : t.done_time = <<>>

\* C18: a traversal whose pre_handle always says to descend calls, for every
\* group: pre_handle, then the whole traversal of each subgroup in order,
\* then todo_handle for each of todos in order, then for each of completed
\* in order, then after_handle; every call receives the value the call
\* before it returned (the log each call extends arrives complete).
C18_TraverseOrder ==
    \A k \in 1..Len(config.groups) :
        LET g == PathNamed(config).groups[k]
            start == <<Call("start", <<>>, 0)>>
        IN  traverse(g, start, "probe", 0) = start \o ExpectedCalls(g, 0)

\* A group has a subgroup, a todo and a completed todo of its own.
C18_Witness ==
    \E g \in LiveGroups(config.groups) :
        g.subgroups # <<>> /\ g.todos # <<>> /\ g.completed # <<>>

\* C19: in a traversal whose pre_handle says to descend exactly into open
\* groups (traverse and traverse_mut alike), a node is visited exactly when
\* every group above it is open; a visited group gets one pre_handle and one
\* after_handle call, a visited todo one todo_handle call, a node that is not
\* visited gets none; and the after_handle call of a closed group follows
\* its pre_handle call at once.
C19_ClosedGroupNotDescended ==
    \A k \in 1..Len(config.groups) :
        LET c0 == PathNamed(config)
            g == c0.groups[k]
            log == traverse(g, <<>>, "probe_open", 0)
            mut == traverse_mut(g, <<>>, "probe_open", 0)
            times(p) == IF AncestorsOpen(p, c0) THEN 1 ELSE 0
        IN  /\ mut = <<log, g>>
            /\ \A p \in {q \in GroupPaths(c0) : q[1] = k - 1} :
                  /\ Cardinality(Positions(log, "pre", p)) = times(p)
                  /\ Cardinality(Positions(log, "post", p)) = times(p)
                  /\ Positions(log, "todo", p) = {}
                  /\ (times(p) = 1 /\ ~GroupAt(c0.groups, p).open) =>
                        \E n \in Positions(log, "pre", p) : n + 1 \in Positions(log, "post", p)
            /\ \A p \in {q \in TodoPaths(c0) : q[1] = k - 1} :
                  /\ Cardinality(Positions(log, "todo", p)) = times(p)
                  /\ Positions(log, "pre", p) = {} /\ Positions(log, "post", p) = {}

\* An open root group holds a closed subgroup that is not empty, followed by
\* a todo of the root group.
C19_Witness ==
    \E k \in 1..Len(config.groups) :
        LET g == config.groups[k]
        IN  /\ g.open
            /\ g.todos # <<>>
            /\ \E n \in 1..Len(g.subgroups) :
                  ~g.subgroups[n].open /\ ~is_empty(g.subgroups[n])

\* C20: whenever cursor_up, cursor_down, group_up, group_down, hierarchy_up
\* or hierarchy_down returns an error, it leaves the cursor path as it was
\* (and hierarchy_down, the only one that may write to the tree, leaves the
\* tree as it was).
C20_ErrorLeavesCursor ==
    LET Errors == {"NoIndex", "GroupNotFound", "OutOfBounds"}
    IN  /\ \A r \in {cursor_up(indexes, config), cursor_down(indexes, config),
                      group_up(indexes, config), group_down(indexes, config),
                      hierarchy_up(indexes, config)} :
              r.res \in Errors => r.indexes = indexes
        /\ LET r == hierarchy_down(indexes, config)
           IN  r.res \in Errors => (r.indexes = indexes /\ r.config = config)

\* C21: the loop is never left because of a cursor failure: main does not
\* return NoIndex, GroupNotFound or OutOfBounds for an event handled while
\* the cursor path does not resolve (the event is ignored and the loop goes
\* on).
C21_CursorFailureNeverEndsLoop ==
    ended \notin {"NoIndex", "GroupNotFound", "OutOfBounds"}

\* C22: an unavailable local time never ends the loop, and with the time
\* unavailable toggling the todo under the cursor still completes.
C22_UnavailableTimeNeverBlocks ==
    /\ ended # "IndeterminateOffset"
    /\ find_item(indexes, config).res = "Ok"
          => toggle_todo(indexes, config, <<>>).res = "Ok"

\* C23: archiving is one-way.  With every archived node marked as such, the
\* live nodes named by their paths and the prompts answering a fresh name,
\* whatever one iteration does (the sweep, then any handler) leaves no node
\* of an archive in the subgroups, todos or completed of the live forest.
C23_ArchivingIsOneWay ==
    \A r \in Outcomes(indexes, Marked(config)) :
        WasArchived \notin LiveNames(r.config.groups)

\* A todo_archive holds a todo, a group has been hidden away, and the live
\* forest still has a todo the handlers can work on.
C23_Witness ==
    /\ ended = ""
    /\ \E g \in LiveGroups(config.groups) : g.todo_archive # <<>>
    /\ \/ config.archive_groups # <<>>
       \/ \E g \in LiveGroups(config.groups) : g.subgroup_archive # <<>>
    /\ TodoPaths(config) # {}

\* C24: no step of the loop deletes a todo: the configuration holds after
\* the step at least the todos it held before (in todos, completed or
\* todo_archive of some group, archived groups included).
C24_TodoNeverDeleted ==
    [][held_todos(config'.groups) + held_todos(config'.archive_groups)
          >= held_todos(config.groups) + held_todos(config.archive_groups)]_vars

\* C25: in every reachable state the index path has at least one index, and
\* no lookup or cursor operation on it returns NoIndex (nor does main).
C25_PathNeverEmpty ==
    /\ Len(indexes) >= 1
    /\ ended # "NoIndex"
    /\ \A r \in {find_item(indexes, config), find_item_mut(indexes, config),
                  find_group(indexes, config), find_group_mut(indexes, config),
                  vert_pos(indexes, config)} : r.res # "NoIndex"
    /\ \A r \in {cursor_up(indexes, config), cursor_down(indexes, config),
                  group_up(indexes, config), group_down(indexes, config),
                  hierarchy_up(indexes, config)} :
          r.res # "NoIndex" /\ Len(r.indexes) >= 1
    /\ LET r == hierarchy_down(indexes, config)
       IN  r.res # "NoIndex" /\ Len(r.indexes) >= 1

\* The cursor is on the only root group, which archive_todo has just
\* emptied (its step back went through hierarchy_up), and hierarchy_up has
\* nothing left to pop.
C25_Witness ==
    /\ ended = ""
    /\ indexes = <<0>>
    /\ Len(config.groups) = 1
    /\ is_empty(config.groups[1])
    /\ config.groups[1].todo_archive # <<>>
    /\ hierarchy_up(indexes, config) = Ret("Ok", <<0>>)
    /\ cursor_up(indexes, config) = Ret("Ok", <<0>>)

\* C26: for the row r = vert_pos of the cursor and every terminal height
\* h >= 1, vert_pos_offset = r - (r \div 4) * h is computed without
\* underflow and lies in the viewport: 0 <= r - offset < h.
C26_ScrollPositionInViewport ==
    \A h \in 1..MaxHeight :
        vert_pos(indexes, config).res = "Ok" =>
            \A r \in vert_pos_offset(indexes, config, h) :
                r.res = "Ok" /\ 0 <= r.val /\ r.val < h

\* C27: an iteration whose poll times out performs the archive sweep before
\* polling again: the step in which the wait times out leaves the
\* configuration as the sweep at the new clock (its now_local() calls
\* succeeding) leaves it.
C27_TimeoutSweeps ==
    [][now' # now =>
          config' = archive_sweep(config,
                        [k \in 1..now_local_calls(config.groups) |-> <<now'>>])]_vars

\* C28: on every path that addresses an open non-empty group, cursor_down
\* returns Ok with the path extended by index 0, the earlier indices as they
\* were, and that path addresses the group's first child in display order
\* (cursor_down borrows the configuration immutably: it cannot change the
\* tree or an open flag).
C28_CursorDownEntersOpenGroup ==
    \A p \in GroupPaths(config) :
        OpenNonEmptyGroup(p, config) =>
            LET r == cursor_down(p, config)
                g == find_item(p, config).item
                first == find_item(r.indexes, config)
            IN  /\ r = Ret("Ok", Append(p, 0))
                /\ first.res = "Ok"
                /\ first.item = Children(g)[1].item
                /\ first.container = Children(g)[1].container
                /\ first.pos = 0

\* The cursor is on an open group below the root level whose first child is
\* a todo.
C28_Witness ==
    /\ ended = ""
    /\ Len(indexes) >= 2
    /\ OpenNonEmptyGroup(indexes, config)
    /\ find_item(indexes, config).item.subgroups = <<>>
    /\ cursor_down(indexes, config).indexes = Append(indexes, 0)

\* C29: when the item under path p is not an open non-empty group, is the
\* last child of its parent group G, and G has a following sibling N at its
\* own level, cursor_down returns Ok with the path of N, which is one index
\* shorter than p.
C29_CursorDownAscendsToNextSibling ==
    \A p \in CandidatePaths(config) :
        LET G == Route(p)
            N == SetLast(G, Last(G) + 1)
        IN  (/\ Len(p) >= 2
             /\ find_item(p, config).res = "Ok"
             /\ ~OpenNonEmptyGroup(p, config)
             /\ Last(p) = len(find_group(p, config).group) - 1
             /\ find_item(N, config).res = "Ok")
            => /\ cursor_down(p, config) = Ret("Ok", N)
               /\ Len(cursor_down(p, config).indexes) = Len(p) - 1

\* The cursor is on the last todo of a subgroup G that is followed, in its
\* parent, by a sibling.
C29_Witness ==
    /\ ended = ""
    /\ Len(indexes) = 3
    /\ find_item(indexes, config).res = "Ok"
    /\ find_item(indexes, config).kind = "Todo"
    /\ Last(indexes) = len(find_group(indexes, config).group) - 1
    /\ find_item(SetLast(Route(indexes), Last(Route(indexes)) + 1), config).res = "Ok"

\* C30: cursor_up from a path whose final index is > 0 (the path resolving)
\* returns Ok with the path of the last visible descendant of the previous
\* sibling (descending into the last child while that is an open non-empty
\* group), so the item it selects is never an open non-empty group.
C30_CursorUpSelectsLastDescendant ==
    (Last(indexes) > 0 /\ find_item(indexes, config).res = "Ok") =>
        LET r == cursor_up(indexes, config)
        IN  /\ r.res = "Ok"
            /\ r.indexes = LastVisibleDescendant(SetLast(indexes, Last(indexes) - 1), config)
            /\ ~OpenNonEmptyGroup(r.indexes, config)

\* C31: on every path whose final index is 0, cursor_up returns Ok; a path
\* longer than 1 loses exactly its last index (and then addresses the parent
\* group when the path resolved), a path of length 1 stays as it is.
\* cursor_up borrows the configuration immutably, so the tree cannot change:
\* the iteration of the cursor-up key leaves the swept configuration.
C31_CursorUpAtFirstSibling ==
    /\ \A p \in CandidatePaths(config) \cup {indexes} :
           Last(p) = 0 =>
               LET r == cursor_up(p, config)
               IN  /\ r.res = "Ok"
                   /\ Len(p) > 1 =>
                          /\ r.indexes = SubSeq(p, 1, Len(p) - 1)
                          /\ find_item(p, config).res = "Ok" =>
                                 /\ find_item(r.indexes, config).res = "Ok"
                                 /\ find_item(r.indexes, config).kind = "Group"
                                 /\ find_item(r.indexes, config).item
                                        = find_group(p, config).group
                   /\ Len(p) = 1 => r.indexes = p
    /\ \A c \in Swept : dropped(cursor_up(indexes, c), c).config = c

\* The cursor is on the first child of a nested group, and cursor_up selects
\* that group.
C31_Witness ==
    /\ ended = ""
    /\ Len(indexes) = 3
    /\ Last(indexes) = 0
    /\ find_item(indexes, config).res = "Ok"
    /\ cursor_up(indexes, config) = Ret("Ok", SubSeq(indexes, 1, 2))

\* The number of siblings at the level of the final index of p: the root
\* groups for a path of length 1, else the children of the parent group.
Siblings(p, context) ==
    IF Len(p) = 1 THEN Len(context.groups)
    ELSE len(GroupAt(context.groups, SubSeq(p, 1, Len(p) - 1)))

\* The configuration with the open flag of every live group set to b.
AllOpen(context, b) ==
    [context EXCEPT !.groups = [k \in 1..Len(@) |-> WithOpen(@[k], b)]]

\* C32: on every path that resolves, group_up and group_down return Ok and
\* change at most the final index: group_up lowers it by 1 when it is > 0,
\* group_down raises it by 1 when a next sibling exists at that level, and
\* both leave the path as it is at the boundary; the result does not depend
\* on any open flag.  Both borrow the configuration immutably, so the
\* iterations of the two keys leave the swept configuration.
C32_GroupStepsAreClamped ==
    /\ \A p \in CandidatePaths(config) :
           find_item(p, config).res = "Ok" =>
               /\ group_up(p, config)
                      = Ret("Ok", IF Last(p) > 0 THEN SetLast(p, Last(p) - 1) ELSE p)
               /\ group_down(p, config)
                      = Ret("Ok", IF Last(p) + 1 < Siblings(p, config)
                                  THEN SetLast(p, Last(p) + 1) ELSE p)
               /\ \A b \in BOOLEAN :
                      /\ group_up(p, AllOpen(config, b)) = group_up(p, config)
                      /\ group_down(p, AllOpen(config, b)) = group_down(p, config)
    /\ \A c \in Swept :
           /\ dropped(group_up(indexes, c), c).config = c
           /\ dropped(group_down(indexes, c), c).config = c

\* The cursor is on the middle one of the three children of a group: both
\* steps move, and the steps from the results stop at the boundary.
C32_Witness ==
    /\ ended = ""
    /\ Len(indexes) = 2
    /\ find_item(indexes, config).res = "Ok"
    /\ Siblings(indexes, config) = 3
    /\ Last(indexes) = 1
    /\ group_up(indexes, config).indexes = SetLast(indexes, 0)
    /\ group_down(indexes, config).indexes = SetLast(indexes, 2)
    /\ group_down(SetLast(indexes, 2), config).indexes = SetLast(indexes, 2)
    /\ group_up(SetLast(indexes, 0), config).indexes = SetLast(indexes, 0)

\* C33: hierarchy_up always returns Ok; a path longer than 1 loses exactly
\* its last index and keeps the indices before it, a path of length 1 stays
\* as it is.  It borrows the configuration immutably, so the iteration of
\* the key leaves the swept configuration.
C33_HierarchyUpPopsOneLevel ==
    /\ \A p \in CandidatePaths(config) \cup {indexes} :
           LET r == hierarchy_up(p, config)
           IN  /\ r.res = "Ok"
               /\ IsPrefix(r.indexes, p)
               /\ Len(r.indexes) = IF Len(p) > 1 THEN Len(p) - 1 ELSE 1
    /\ \A c \in Swept : dropped(hierarchy_up(indexes, c), c).config = c

\* The cursor is two levels below a root group, on a path that does not
\* resolve any more; hierarchy_up still pops one level.
C33_Witness ==
    /\ ended = ""
    /\ Len(indexes) = 3
    /\ find_item(indexes, config).res # "Ok"
    /\ hierarchy_up(indexes, config) = Ret("Ok", SubSeq(indexes, 1, 2))
    /\ hierarchy_up(<<indexes[1]>>, config) = Ret("Ok", <<indexes[1]>>)

\* C34: on every path that resolves, hierarchy_down returns Ok.  If the path
\* selects a non-empty group, the path gets index 0 appended, the group's
\* open flag is true afterwards, and nothing else in the configuration
\* differs (no other open flag, no node, no archive).  If it selects a todo
\* or an empty group, the path and the configuration stay as they are.
C34_HierarchyDownOpensAndEnters ==
    \A p \in CandidatePaths(config) :
        LET item == find_item(p, config)
            r == hierarchy_down(p, config)
        IN  item.res = "Ok" =>
                /\ r.res = "Ok"
                /\ IF item.kind = "Group" /\ len(item.item) > 0
                   THEN /\ r.indexes = Append(p, 0)
                        /\ find_item(p, r.config).item = [item.item EXCEPT !.open = TRUE]
                        /\ \A q \in GroupPaths(config) \ {p} :
                               /\ find_item(q, r.config).res = "Ok"
                               /\ find_item(q, r.config).item.open
                                      = find_item(q, config).item.open
                        /\ AllOpen(r.config, TRUE) = AllOpen(config, TRUE)
                   ELSE /\ r.indexes = p
                        /\ r.config = config

\* The cursor is on a closed non-empty group below the root level, and the
\* forest also has a closed empty group, which hierarchy_down leaves alone.
C34_Witness ==
    /\ ended = ""
    /\ Len(indexes) = 2
    /\ find_item(indexes, config).res = "Ok"
    /\ find_item(indexes, config).kind = "Group"
    /\ ~find_item(indexes, config).item.open
    /\ len(find_item(indexes, config).item) > 0
    /\ hierarchy_down(indexes, config).indexes = <<indexes[1], indexes[2], 0>>
    /\ \E q \in GroupPaths(config) :
           /\ ~find_item(q, config).item.open
           /\ len(find_item(q, config).item) = 0
           /\ hierarchy_down(q, config) = [res |-> "Ok", indexes |-> q, config |-> config]

\* C35: for every path that find_item resolves, find_group and
\* find_group_mut return Ok with the same group and route, and that group is
\* the container of the item: the entry of its child list (subgroups, todos,
\* completed in display order) at the final index is the item find_item
\* returns, in the vector and at the position find_item reports.  This is
\* asked of paths of length 1 as of longer ones.
C35_FindGroupIsContainer ==
    \A p \in CandidatePaths(config) :
        LET item == find_item(p, config)
            fg == find_group(p, config)
        IN  item.res = "Ok" =>
                /\ fg.res = "Ok"
                /\ find_group_mut(p, config) = fg
                /\ Last(p) < len(fg.group)
                /\ Children(fg.group)[Last(p) + 1].item = item.item
                /\ Children(fg.group)[Last(p) + 1].container = item.container
                /\ Children(fg.group)[Last(p) + 1].pos = item.pos

\* The path the cursor is to have after the item under p was removed from a
\* level that keeps n siblings: p itself while its final index is < n, else
\* the final index one lower, else (final index 0) one level up, which for a
\* path of length 1 is the path itself.
Reclamped(p, n) ==
    IF Last(p) < n THEN p
    ELSE IF Last(p) > 0 THEN SetLast(p, Last(p) - 1)
    ELSE IF Len(p) > 1 THEN SubSeq(p, 1, Len(p) - 1)
    ELSE p

\* The configuration an iteration ends with when its handler left context:
\* fixing blanks gives an emptied forest a new root group.
Unblanked(context) ==
    IF context.groups = <<>>
    THEN {create_top_group(context, name) : name \in GroupNames}
    ELSE {context}

\* C36: archive-todo on every path that addresses a todo, and hide-group on
\* every path that addresses a group, in every configuration an iteration
\* may hand to the handler: the operation returns Ok, the level of the item
\* has one sibling fewer, the cursor is the re-clamped path (unchanged while
\* the final index is still in range, else decremented, else popped to the
\* group G the item was removed from), and the resulting path resolves.
C36_RemovalReclampsCursor ==
    \A c \in Swept :
        /\ \A p \in TodoPaths(c) :
               LET r == archive_todo(p, c)
                   n == Siblings(p, r.config)
               IN  /\ r.res = "Ok"
                   /\ n = Siblings(p, c) - 1
                   /\ r.indexes = Reclamped(p, n)
                   /\ find_item(r.indexes, r.config).res = "Ok"
                   /\ (n = 0) => /\ r.indexes = Route(p)
                                 /\ find_item(r.indexes, r.config).kind = "Group"
        /\ \A p \in GroupPaths(c) :
               LET r == hide_group(p, c)
                   n == Siblings(p, r.config)
               IN  /\ r.res = "Ok"
                   /\ n = Siblings(p, c) - 1
                   /\ r.indexes = Reclamped(p, n)
                   /\ \A after \in Unblanked(r.config) :
                          find_item(r.indexes, after).res = "Ok"
                   /\ (n = 0 /\ Len(p) > 1) =>
                          /\ r.indexes = Route(p)
                          /\ find_item(r.indexes, r.config).kind = "Group"

\* The cursor is on the only todo of a nested group, which archive-todo pops
\* out of, and the forest has a group that is the last of several siblings,
\* where hide-group decrements, and one that is followed by a sibling, where
\* hide-group leaves the path.
C36_Witness ==
    /\ ended = ""
    /\ Len(indexes) = 3
    /\ indexes \in TodoPaths(config)
    /\ Siblings(indexes, config) = 1
    /\ archive_todo(indexes, config).indexes = SubSeq(indexes, 1, 2)
    /\ \E q \in GroupPaths(config) :
           /\ Last(q) > 0
           /\ hide_group(q, config).indexes = SetLast(q, Last(q) - 1)
    /\ \E q \in GroupPaths(config) :
           /\ Siblings(q, config) > Last(q) + 1
           /\ hide_group(q, config).indexes = q

\* What moving the todo under p by d (+1 down, -1 up) is to do to the
\* configuration context, whose nodes are named by their paths, given the
\* handler's result r: if the todo is active and has an active neighbour on
\* that side, the two exchange places in todos, nothing else differs, and the
\* cursor is on the moved todo; otherwise nothing changes at all.
MovedTodo(p, d, context, r) ==
    LET item == find_item(p, context)
        G == GroupAt(context.groups, Route(p))
        G2 == GroupAt(r.config.groups, Route(p))
        to == SetLast(p, Last(p) + d)
    IN  /\ r.res = "Ok"
        /\ IF /\ item.container = "todos"
              /\ item.pos + d >= 0
              /\ item.pos + d < Len(G.todos)
           THEN /\ r.indexes = to
                /\ find_item(to, r.config).res = "Ok"
                /\ find_item(to, r.config).container = "todos"
                /\ find_item(to, r.config).item.name = p
                /\ find_item(p, r.config).container = "todos"
                /\ find_item(p, r.config).item.name = to
                /\ Len(G2.todos) = Len(G.todos)
                /\ \A k \in 1..Len(G.todos) :
                       k \notin {item.pos + 1, item.pos + d + 1} => G2.todos[k] = G.todos[k]
                /\ G2.subgroups = G.subgroups
                /\ G2.completed = G.completed
                /\ [r.config EXCEPT !.groups = put_group(@, Route(p), G)] = context
           ELSE /\ r.indexes = p
                /\ r.config = context

\* C37: move-todo-down and move-todo-up on every path that addresses a todo,
\* in every configuration an iteration may hand to the handler: an active
\* todo with an active neighbour on that side exchanges places with it in
\* todos and the cursor follows it; at the first/last position of todos and
\* on a completed todo neither the tree nor the cursor changes; subgroups and
\* completed are never touched.
C37_MoveTodoSwapsAdjacent ==
    \A c \in Swept :
        \A p \in TodoPaths(c) :
            /\ MovedTodo(p, 1, PathNamed(c), move_todo_down(p, PathNamed(c)))
            /\ MovedTodo(p, -1, PathNamed(c), move_todo_up(p, PathNamed(c)))

\* The cursor is on the second of two active todos of a group that also has
\* a completed todo: moving up swaps, moving down does nothing, and moving
\* the completed todo does nothing.
C37_Witness ==
    /\ ended = ""
    /\ indexes \in TodoPaths(config)
    /\ find_item(indexes, config).container = "todos"
    /\ find_item(indexes, config).pos = 1
    /\ Len(find_group(indexes, config).group.todos) = 2
    /\ Len(find_group(indexes, config).group.completed) = 1
    /\ move_todo_up(indexes, config).indexes = SetLast(indexes, Last(indexes) - 1)
    /\ move_todo_down(indexes, config).indexes = indexes
    /\ move_todo_up(SetLast(indexes, Last(indexes) + 1), config).indexes
           = SetLast(indexes, Last(indexes) + 1)

\* What moving the group under p by d (+1 down, -1 up) is to do to the
\* configuration context, whose nodes are named by their paths, given the
\* handler's result r: within the sequence that contains the group (the
\* forest for a path of length 1, else the parent's subgroups) the group
\* and its neighbour on that side exchange places, the cursor is on the
\* moved group and resolves; without a neighbour nothing changes.
MovedGroup(p, d, context, r) ==
    LET S == IF Len(p) = 1 THEN context.groups
             ELSE GroupAt(context.groups, Route(p)).subgroups
        to == SetLast(p, Last(p) + d)
    IN  /\ r.res = "Ok"
        /\ IF Last(p) + d >= 0 /\ Last(p) + d < Len(S)
           THEN /\ r.indexes = to
                /\ find_item(to, r.config).res = "Ok"
                /\ find_item(to, r.config).item = find_item(p, context).item
                /\ find_item(p, r.config).res = "Ok"
                /\ find_item(p, r.config).item = find_item(to, context).item
           ELSE /\ r.indexes = p
                /\ r.config = context

\* C38: move-group-down and move-group-up on every path that addresses a
\* group, of length 1 or longer, in every configuration an iteration may hand
\* to the handler: the group exchanges places with its adjacent sibling in
\* the sequence that contains it and the cursor follows it and resolves; at
\* the first/last sibling nothing changes; the handler never aborts on an
\* index outside the sequence it swaps in.
C38_MoveGroupSwapsAdjacent ==
    \A c \in Swept :
        \A p \in GroupPaths(c) :
            /\ MovedGroup(p, 1, PathNamed(c), move_group_down(p, PathNamed(c)))
            /\ MovedGroup(p, -1, PathNamed(c), move_group_up(p, PathNamed(c)))

\* C39: in every reachable state every proper prefix of the cursor path
\* selects an existing group, and that group is open: the cursor is never
\* inside a collapsed group.
C39_CursorNeverInCollapsedGroup ==
    \A n \in 1..(Len(indexes) - 1) :
        /\ RouteInBounds(config.groups, SubSeq(indexes, 1, n))
        /\ GroupAt(config.groups, SubSeq(indexes, 1, n)).open

\* The cursor is two levels below a root group while the forest has a
\* closed group next to one of its ancestors.
C39_Witness ==
    /\ ended = ""
    /\ Len(indexes) = 3
    /\ find_item(indexes, config).res = "Ok"
    /\ \E q \in GroupPaths(config) :
           /\ ~find_item(q, config).item.open
           /\ \E n \in 1..2 : Len(q) = n /\ q # SubSeq(indexes, 1, n)

====
